---- MODULE Spec2Model ----
(***************************************************************************)
(* Model of the enrichment-and-dispatch pipeline of aws-message-publisher: *)
(* SqsMessagePublisher / SnsMessagePublisher (publish, publishBatch) and   *)
(* EnrichmentPipeline.                                                     *)
(*                                                                         *)
(* Indices are kept 0-based as in the TypeScript source; a sequence s is   *)
(* read at the 0-based index i by s[i + 1].                                *)
(***************************************************************************)
EXTENDS Integers, Sequences, FiniteSets, TLC

\* ------------------------------------------------------------------------
\* Program constants and bounds
\* ------------------------------------------------------------------------

\* const chunkSize = 10 in publishBatch
chunkSize == 10

\* longest input list of a publishBatch call, for every publisher and
\* destination form (Spec)
MaxMsgs == 4

\* longest input list of a publishBatch call that spans several chunks
\* (SpecLong)
MaxLongMsgs == 11

\* longest input list handed to the chunking loop alone (SpecChunk)
MaxBatch == 50

\* number of distinct message bodies
MsgKinds == 3

\* longest list of enrichers handed to a pipeline or put in a configuration
MaxEnrichers == 3

\* longest list of enrichers in the configuration of a publisher (SpecPublish)
MaxConfigEnrichers == 2

\* number of getEnrichers calls on one pipeline (SpecArrays)
MaxGets == 2

\* longest array of enrichers a pipeline is constructed from (SpecArrays)
MaxArrayEnrichers == 2

\* longest input list of a publishBatch call on a publisher constructed
\* without configuration (SpecFresh)
MaxFreshMsgs == 2

\* number of publish calls issued one after another (SpecLifecycle)
MaxCalls == 3

\* number of configurations applied to a publisher after its first one
MaxConfigures == 1

\* the numbers of the attribute values given to the conversion are
\* -MaxNumber..MaxNumber, their Buffers hold up to MaxBytes bytes
MaxNumber == 1

MaxBytes == 1

\* a configure callback makes up to MaxBuilderCalls calls on the builder
MaxBuilderCalls == 3

\* longest list of enrichers in the configurations a publisher is
\* reconfigured with (SpecReconfigure)
MaxReconfigEnrichers == 1

\* ------------------------------------------------------------------------
\* State
\* ------------------------------------------------------------------------
VARIABLES
  publisher,        \* "sqs" (SqsMessagePublisher) or "sns" (SnsMessagePublisher)
  config,           \* this.config: [destination, enrichers, contextResolver]
  resolved,         \* this.resolvedQueueUrl / this.resolvedTopicArn (Undefined or an address)
  messages,         \* the messages argument of publishBatch
  optContinue,      \* options?.continueOnError: "undefined", "true" or "false"
  batchPc,          \* position of the publishBatch call
  chunks,           \* the local chunks array
  chunkPos,         \* 0-based position of the chunk whose promises are awaited
  promises,         \* the promises array of the current chunk
  successful,       \* the local successful array
  failed,           \* the local failed array
  batchResult,      \* the value publishBatch resolved with (NoResult before that)
  pub,              \* per input position: state of the publish call made for it
  enrichmentPipeline, \* this.enrichmentPipeline: [defined, sortedEnrichers]
  arrays,           \* the enricher arrays in being: [heap, caller, sorted, got, early];
                    \* heap[r] is the content of the array object r, caller is the
                    \* array given to the pipeline's constructor, sorted is
                    \* this.sortedEnrichers, got is the array getEnrichers returned last
  enrichPc,         \* position of the EnrichmentPipeline.enrich call
  enrichPos,        \* enrich: 0-based position of the enricher being awaited
  allAttributes,    \* enrich: the local allAttributes object
  outcomes,         \* enrich: for each enricher invoked so far, whether it threw
  enrichReturn,     \* the value enrich resolved with
  publishPc,        \* position of a single publish call
  queueUrl,         \* publish: the local queueUrl / topicArn
  attributes,       \* publish: the local attributes
  sends,            \* the send commands given to the backend client, in order
  publishFault,     \* the collaborator that failed in the publish call ("none" if none)
  publishReturn,    \* what the publish call settled with: [result] or [error]
  batchError,       \* the class of the error publishBatch rejected with ("none" if none)
  inflight,         \* enrich: 0-based positions of the enrichers invoked and not settled
  invocations,      \* enrich: 0-based positions of the enrichers in the order of invocation
  optAttributes,    \* publish: options?.messageAttributes, <<>> when absent, else <<attrs>>
  callNo,           \* number of publish calls made so far
  configureLog,     \* the applyConfiguration calls made so far: [calls, destination, contextResolver]
  lookupLog,        \* the GetQueueUrl / CreateTopic calls made by publish calls, in order
  cacheLog,         \* the addresses assigned to the cache field since the last configuration
  pubLog,           \* per input position: [fault, sends] of the publish call made for it
  logger,           \* this.logger of the publisher: the class of the logger it calls
  batchLookups,     \* publishBatch: number of name lookups the call itself has made
  firstRun,         \* what a batch gave on the sqs publisher, kept while the same batch
                    \* is given to an sns publisher (done is FALSE before that)
  overtaken,        \* publishBatch: whether a publish call of the batch has settled
                    \* while a call made before it in its chunk was pending
  lastConfigure,    \* the last configure(callback) call: the builder calls of the callback,
                    \* what build() gave and how the call ended
  steps,            \* the steps of the publish call begun and completed so far, in order
  context,          \* the local `context` of publish
  response,         \* the local `response` of publish: what the backend answered to the send
  received          \* the context passed to each enricher invocation, parallel to invocations

batchCallVars == <<messages, optContinue, batchPc, chunks, chunkPos, promises,
                   successful, failed, batchResult, pub, batchError, pubLog, overtaken, batchLookups, firstRun>>

batchVars == <<publisher, logger, lastConfigure, config, resolved, batchCallVars>>

pipeVars == <<enrichmentPipeline, arrays, enrichPc, enrichPos, allAttributes, outcomes, enrichReturn,
              inflight, invocations, received>>

callVars == <<publishPc, optAttributes, queueUrl, attributes, sends, publishFault,
              publishReturn, steps, context, response>>

histVars == <<callNo, configureLog, lookupLog, cacheLog>>

\* ------------------------------------------------------------------------
\* Destinations and name resolution
\* ------------------------------------------------------------------------

\* A destination is either already canonical (ARN / URL prefix) or a short name.
Destinations == { [form |-> f, id |-> "A"] : f \in {"canonical", "name"} }

\* destination.startsWith('https://') || destination.startsWith('http://')   (sqs)
\* destination.startsWith('arn:aws:sns:') || destination.startsWith('arn:aws-') (sns)
IsCanonical(destination) == destination.form = "canonical"

\* the destinations a publisher is configured with over its life
AllDestinations == { [form |-> f, id |-> i] : f \in {"canonical", "name"}, i \in {"A", "B"} }

\* value of the cache field while nothing is cached (undefined)
Undefined == [form |-> "undefined", id |-> "-"]

\* (variant: the name is handed back as it was given)
AddressAsGiven(destination) == destination

\* the address the backend's GetQueueUrl / CreateTopic returns for a name
AddressOf(destination) == [form |-> "canonical", id |-> destination.id]

\* this.config before any configuration was applied (undefined)
NoConfig ==
  [destination |-> Undefined, enrichers |-> <<>>, contextResolver |-> FALSE,
   logger |-> "undefined", serializer |-> "undefined"]

\* (variant: the check for a configuration always passes)
IsConfiguredAlways(cfg) == TRUE

\* ensureConfigured: if (!this.config) throw new ConfigurationError(...)
IsConfigured(cfg) == cfg # NoConfig

\* the record of assignments to the cache field, after the cache went from
\* before to after in a synchronous stretch of code (the field is assigned
\* there only while it is empty)
Logged(log, before, after) == IF after # before THEN Append(log, after) ELSE log

\* ------------------------------------------------------------------------
\* Messages
\* ------------------------------------------------------------------------

\* The input list of length n.  pos is the position of the message in the
\* input list; it travels with the message object and is never read by the
\* dispatcher.
MessageList(n) == [ i \in 1..n |-> [pos |-> i - 1, body |-> (i - 1) % MsgKinds] ]

\* (variant: the slice runs to the end of the array)
SliceToEnd(s, start, end) == SubSeq(s, start + 1, Len(s))

\* Array.prototype.slice(start, end)
Slice(s, start, end) == SubSeq(s, start + 1, IF end < Len(s) THEN end ELSE Len(s))

\* for (let i = 0; i < messages.length; i += chunkSize) chunks.push(messages.slice(i, i + chunkSize))
\* Every chunk is a fresh array object: ref is its identity.
\* (variant: the loop runs only while a full chunk is left)
RECURSIVE ChunkLoopFullOnly(_, _, _)
ChunkLoopFullOnly(msgs, i, acc) ==
  IF i + chunkSize <= Len(msgs)
    THEN ChunkLoopFullOnly(msgs, i + chunkSize,
                   Append(acc, [ref |-> Len(acc), items |-> Slice(msgs, i, i + chunkSize)]))
    ELSE acc

RECURSIVE ChunkLoop(_, _, _)
ChunkLoop(msgs, i, acc) ==
  IF i < Len(msgs)
    THEN ChunkLoop(msgs, i + chunkSize,
                   Append(acc, [ref |-> Len(acc), items |-> Slice(msgs, i, i + chunkSize)]))
    ELSE acc

MakeChunks(msgs) == ChunkLoop(msgs, 0, <<>>)

\* chunks.indexOf(chunk): strict equality on array objects is identity
RECURSIVE IndexOfFrom(_, _, _)
IndexOfFrom(cs, chunk, k) ==
  IF k >= Len(cs) THEN -1
  ELSE IF cs[k + 1].ref = chunk.ref THEN k
  ELSE IndexOfFrom(cs, chunk, k + 1)

\* (variant: the position inside the chunk is taken for the original index)
OriginalIndexInChunk(cs, chunk, indexInChunk) == indexInChunk

\* const originalIndex = chunks.indexOf(chunk) * chunkSize + indexInChunk
OriginalIndex(cs, chunk, indexInChunk) ==
  IndexOfFrom(cs, chunk, 0) * chunkSize + indexInChunk

\* options?.continueOnError ?? true
ContinueOnError(opt) == IF opt = "undefined" THEN TRUE ELSE opt = "true"

\* ------------------------------------------------------------------------
\* Enrichers and the enrichment pipeline
\* ------------------------------------------------------------------------

\* attribute names the enrichers of the model produce
AttributeKeySets == { {"a"}, {"a", "b"}, {"b", "contentType"} }

\* the attribute names an enricher can produce
AttributeKeys == UNION AttributeKeySets

\* An enricher: id is its position in the caller's array; getPriority is
\* <<>> when the optional method is absent, else <<p>> with p the number it
\* returns; keys are the names of the attributes its enrich returns.
EnricherLists(maxLen) ==
  UNION { { [i \in 1..m |-> [id |-> i, getPriority |-> f[i].getPriority, keys |-> f[i].keys]] :
              f \in [1..m -> [getPriority : {<<>>, <<50>>, <<150>>},
                              keys : AttributeKeySets]] } : m \in 0..maxLen }

\* MessageAttributeValue.value: string | number | Buffer.  A value is a
\* record of its JavaScript type (js) and its content in the field of that
\* type: the characters of a string, the integer of a number, the bytes of a
\* Buffer.
JsString(chars) == [js |-> "string", str |-> chars, num |-> 0, bytes |-> <<>>]

JsNumber(n) == [js |-> "number", str |-> "", num |-> n, bytes |-> <<>>]

JsBuffer(bs) == [js |-> "Buffer", str |-> "", num |-> 0, bytes |-> bs]

\* Buffer.prototype.toString(): the bytes decoded as utf-8
RECURSIVE Utf8(_)
Utf8(bs) ==
  IF bs = <<>> THEN ""
  ELSE (IF Head(bs) = 97 THEN "a" ELSE IF Head(bs) = 98 THEN "b" ELSE "?") \o Utf8(Tail(bs))

\* String(value): a string is itself, a number is written in decimal, a
\* Buffer is decoded
ToJsString(v) ==
  IF v.js = "string" THEN v.str
  ELSE IF v.js = "number" THEN ToString(v.num)
  ELSE Utf8(v.bytes)

\* the MessageAttributes a successful enricher.enrich(message, context) returns
AttributesOf(enricher) ==
  [ k \in enricher.keys |-> [dataType |-> "String", value |-> JsString(ToString(enricher.id))] ]

\* a.getPriority?.() ?? 100
Priority(enricher) ==
  IF enricher.getPriority = <<>> THEN 100 ELSE enricher.getPriority[1]

\* the comparator (a, b) => priorityA - priorityB
Compare(a, b) == Priority(a) - Priority(b)

\* (variant: an element goes before the elements it compares equal to)
RECURSIVE InsertByPriorityBeforeEqual(_, _)
InsertByPriorityBeforeEqual(sorted, e) ==
  IF sorted = <<>> THEN <<e>>
  ELSE IF Compare(sorted[Len(sorted)], e) < 0 THEN Append(sorted, e)
  ELSE Append(InsertByPriorityBeforeEqual(SubSeq(sorted, 1, Len(sorted) - 1), e),
              sorted[Len(sorted)])

\* Array.prototype.sort is stable: an element goes behind every element
\* that does not compare greater than it.
RECURSIVE InsertByPriority(_, _)
InsertByPriority(sorted, e) ==
  IF sorted = <<>> THEN <<e>>
  ELSE IF Compare(sorted[Len(sorted)], e) <= 0 THEN Append(sorted, e)
  ELSE Append(InsertByPriority(SubSeq(sorted, 1, Len(sorted) - 1), e), sorted[Len(sorted)])

\* [...enrichers].sort((a, b) => priorityA - priorityB)
RECURSIVE SortByPriority(_)
SortByPriority(es) ==
  IF es = <<>> THEN <<>>
  ELSE InsertByPriority(SortByPriority(SubSeq(es, 1, Len(es) - 1)), es[Len(es)])

\* this.enrichmentPipeline before any pipeline was created (undefined)
NoPipeline == [defined |-> FALSE, sortedEnrichers |-> <<>>]

\* new EnrichmentPipeline(enrichers)
NewPipeline(es) == [defined |-> TRUE, sortedEnrichers |-> SortByPriority(es)]

\* getEnrichers(): return [...this.sortedEnrichers]
GetEnrichers(pipeline) == pipeline.sortedEnrichers

\* no enricher array is in being
NoArrays ==
  [heap |-> <<>>, caller |-> 0, sorted |-> 0, got |-> 0, fresh |-> FALSE, early |-> FALSE]

\* (variant: no copy is made, the array itself is taken)
SpreadSame(heap, r) == [heap |-> heap, ref |-> r]

\* [...xs]: a new array object with the elements of the array object r
Spread(heap, r) == [heap |-> Append(heap, heap[r]), ref |-> Len(heap) + 1]

\* new EnrichmentPipeline(enrichers), enrichers being the array object of
\* the caller with the elements es:
\*   this.sortedEnrichers = [...enrichers].sort(comparator)
\* (sort sorts the array object it is called on in place, and returns it)
ArraysAfterConstruction(es) ==
  LET copy == Spread(<<es>>, 1) IN
    [heap |-> [copy.heap EXCEPT ![copy.ref] = SortByPriority(@)],
     caller |-> 1, sorted |-> copy.ref,
     got |-> 0, fresh |-> FALSE, early |-> FALSE]

\* (variant: the keys the target already has keep their values)
ObjectAssignKeepTarget(target, source) ==
  [ k \in (DOMAIN target) \cup (DOMAIN source) |->
      IF k \in DOMAIN target THEN target[k] ELSE source[k] ]

\* Object.assign(target, source): the keys of source overwrite those of target
ObjectAssign(target, source) ==
  [ k \in (DOMAIN target) \cup (DOMAIN source) |->
      IF k \in DOMAIN source THEN source[k] ELSE target[k] ]

\* the empty object {}
EmptyObject == [ k \in {} |-> 0 ]

\* (variant: no try/catch around the enricher call, its error leaves enrich)
EnrichStepRethrow(st, enricher, threw) ==
  IF threw
    THEN [st EXCEPT !.pc = "rejected"]
    ELSE [st EXCEPT !.attrs = ObjectAssign(@, AttributesOf(enricher))]

\* (variant: the attributes of the enricher replace the accumulated ones)
EnrichStepReplace(st, enricher, threw) ==
  IF threw
    THEN st
    ELSE [st EXCEPT !.attrs = AttributesOf(enricher)]

\* One turn of the loop of enrich, st = [pc, attrs]:
\*   try { const attributes = await enricher.enrich(message, context);
\*         Object.assign(allAttributes, attributes); }
\*   catch (error) { console.error(...) }
EnrichStep(st, enricher, threw) ==
  IF threw
    THEN st
    ELSE [st EXCEPT !.attrs = ObjectAssign(@, AttributesOf(enricher))]

\* (variant: every enricher is invoked when enrich is entered)
InvokeAll(sorted, k) == IF k = 0 THEN [ i \in 1..Len(sorted) |-> i - 1 ] ELSE <<>>

\* The enricher calls made by turn k of `for (const enricher of this.sortedEnrichers)`:
\* the turn calls sortedEnrichers[k] and awaits it; there is no turn past the end.
Invoke(sorted, k) == IF k < Len(sorted) THEN <<k>> ELSE <<>>

\* the set of the elements of a sequence
Range(s) == { s[i] : i \in DOMAIN s }

\* (variant: the enrichers are given an empty context)
PassedEmpty(calls, ctx) == [ i \in DOMAIN calls |-> EmptyObject ]

\* enricher.enrich(message, context): the context given to the enrichers
\* invoked by calls is the context argument of the pipeline's enrich
Passed(calls, ctx) == [ i \in DOMAIN calls |-> ctx ]

\* enrich(message, context) is entered with ctx as context: const
\* allAttributes = {}, and the first turn of the loop runs up to its await
EnrichBegin(ctx) ==
  /\ enrichPc' = "running"
  /\ enrichPos' = 0
  /\ allAttributes' = EmptyObject
  /\ outcomes' = <<>>
  /\ enrichReturn' = EmptyObject
  /\ inflight' = Range(Invoke(enrichmentPipeline.sortedEnrichers, 0))
  /\ invocations' = Invoke(enrichmentPipeline.sortedEnrichers, 0)
  /\ received' = Passed(Invoke(enrichmentPipeline.sortedEnrichers, 0), ctx)

\* new EnrichmentPipeline(enrichers) with the caller's array config.enrichers
ConstructPipeline ==
  /\ ~enrichmentPipeline.defined
  /\ enrichmentPipeline' = NewPipeline(config.enrichers)
  /\ arrays' = ArraysAfterConstruction(config.enrichers)
  /\ UNCHANGED <<enrichPc, enrichPos, allAttributes, outcomes, enrichReturn, inflight,
                 invocations, received>>
  /\ UNCHANGED <<batchVars, callVars, histVars>>

\* enrich is called directly on a pipeline
EnrichCall ==
  /\ enrichPc = "idle"
  /\ enrichmentPipeline.defined
  /\ EnrichBegin(context)
  /\ UNCHANGED <<enrichmentPipeline, arrays, batchVars, callVars, histVars>>

\* the awaited enricher.enrich(message, context) settles, and the loop goes
\* on to its next turn
EnricherSettle ==
  /\ enrichPc = "running"
  /\ enrichPos < Len(enrichmentPipeline.sortedEnrichers)
  /\ enrichPos \in inflight
  /\ \E threw \in BOOLEAN :
       LET st == EnrichStep([pc |-> enrichPc, attrs |-> allAttributes],
                            enrichmentPipeline.sortedEnrichers[enrichPos + 1], threw)
           calls == IF st.pc = "running"
                      THEN Invoke(enrichmentPipeline.sortedEnrichers, enrichPos + 1)
                      ELSE <<>>
       IN /\ enrichPc' = st.pc
          /\ allAttributes' = st.attrs
          /\ outcomes' = Append(outcomes, threw)
          /\ enrichPos' = enrichPos + 1
          /\ inflight' = (inflight \ {enrichPos}) \cup Range(calls)
          /\ invocations' = invocations \o calls
          /\ received' = received \o Passed(calls, context)
  /\ UNCHANGED <<enrichmentPipeline, arrays, enrichReturn, batchVars, callVars, histVars>>

\* the loop is over: return allAttributes
EnrichReturn ==
  /\ enrichPc = "running"
  /\ enrichPos >= Len(enrichmentPipeline.sortedEnrichers)
  /\ enrichPc' = "resolved"
  /\ enrichReturn' = allAttributes
  /\ UNCHANGED <<enrichmentPipeline, arrays, enrichPos, allAttributes, outcomes, inflight,
                 invocations, received, batchVars, callVars, histVars>>

\* ------------------------------------------------------------------------
\* publish (as called from publishBatch)
\* ------------------------------------------------------------------------

\* resolveQueueUrl / resolveTopicArn up to its first suspension: the cache
\* after the call has run synchronously (a cached or canonical destination
\* needs no lookup; a canonical one is stored in the cache at once).
CacheAfterSyncResolve(cache, destination) ==
  IF cache # Undefined THEN cache
  ELSE IF IsCanonical(destination) THEN destination
  ELSE cache

\* (variant: the cache is not consulted)
NeedsLookupIgnoringCache(cache, destination) == ~IsCanonical(destination)

\* TRUE when the call has to await the backend's name lookup
NeedsLookup(cache, destination) ==
  cache = Undefined /\ ~IsCanonical(destination)

\* The steps of publish at which a collaborator can fail for one call.
\* "lookup": name resolution (only when a lookup is made); "context":
\* contextResolver.resolve (only when a resolver is configured); "serialize":
\* serializer.serialize; "send": the backend send; "none": all succeed.
Faults(lookup, contextResolver) ==
  {"none", "serialize", "send"}
    \cup (IF lookup THEN {"lookup"} ELSE {})
    \cup (IF contextResolver THEN {"context"} ELSE {})

\* every step of publish at which a collaborator can fail
FaultKinds == {"none", "lookup", "context", "serialize", "send"}

\* (variant: the client's send is called whatever failed before)
SendsOfAlways(fault) == 1

\* (variant: a failed send is tried once more)
SendsOfWithRetry(fault) ==
  IF fault = "none" THEN 1 ELSE IF fault = "send" THEN 2 ELSE 0

\* The number of calls of the client's send made by a publish call in which
\* the collaborator at step fault fails: send comes last, after
\* resolveQueueUrl, resolveContext, enrichMessage and serialize have returned,
\* and it is called once.
SendsOf(fault) == IF fault \in {"none", "send"} THEN 1 ELSE 0

\* (variant: the result names the destination as configured)
PublishResultAsConfigured(resp, address) ==
  [messageId |-> resp.MessageId, destination |-> config.destination]

\* return { messageId: response.MessageId!, ..., destination: queueUrl, ... }
PublishResult(resp, address) == [messageId |-> resp.MessageId, destination |-> address]

\* chunk.map((message, indexInChunk) => { const originalIndex = ...;
\*   return this.publish(message, options).then(...).catch(...) })
\* evaluated with the cache as it is when the map runs.  A promise is
\* pending until its publish call settles and then holds a value (value is
\* <<>> before that); index and message are the closure's originalIndex and
\* message; lookup records whether the publish call awaits the backend's
\* name lookup.
ChunkPromises(cs, chunk, cache, destination) ==
  [ j \in 1..Len(chunk.items) |->
      [ state   |-> "pending",
        value   |-> <<>>,
        index   |-> OriginalIndex(cs, chunk, j - 1),
        message |-> chunk.items[j],
        lookup  |-> NeedsLookup(cache, destination) ] ]

\* .then(result => ({ success: true, result, message, index: originalIndex }))
\* (the message id the backend assigns is the input position of the message)
Fulfilled(p, address) ==
  [p EXCEPT !.state = "settled",
            !.value = << [ success |-> TRUE, result |-> PublishResult([MessageId |-> p.message.pos], address),
                           message |-> p.message, index |-> p.index ] >>]

\* .catch(error => ({ success: false, error, message, index: originalIndex }))
Caught(p) ==
  [p EXCEPT !.state = "settled",
            !.value = << [ success |-> FALSE, error |-> "Error",
                           message |-> p.message, index |-> p.index ] >>]

\* ------------------------------------------------------------------------
\* publishBatch: aggregation of one chunk's results
\* ------------------------------------------------------------------------

\* (variant: resumes as soon as one promise has settled, as Promise.race would)
AnySettled(ps) == \E j \in 1..Len(ps) : ps[j].state = "settled"

\* await Promise.all(promises) resumes once every promise has settled ...
AllSettled(ps) == \A j \in 1..Len(ps) : ps[j].state = "settled"

\* (variant: the values come last promise first)
RECURSIVE ResultsReversed(_)
ResultsReversed(ps) ==
  IF ps = <<>> THEN <<>> ELSE ResultsReversed(Tail(ps)) \o ps[1].value

\* ... with the array of their values, in the order of the promises
RECURSIVE Results(_)
Results(ps) == IF ps = <<>> THEN <<>> ELSE ps[1].value \o Results(Tail(ps))

\* (variant: the early return is taken on a failure whatever continueOnError is)
RECURSIVE AggregateFromAlwaysStop(_, _, _, _)
AggregateFromAlwaysStop(results, k, acc, continueOnError) ==
  IF k > Len(results) THEN acc
  ELSE LET r == results[k] IN
    IF r.success
      THEN AggregateFromAlwaysStop(results, k + 1,
                         [acc EXCEPT !.successful = Append(@, r.result)], continueOnError)
      ELSE [acc EXCEPT !.failed = Append(@, [message |-> r.message, error |-> r.error,
                                             index |-> r.index]),
                       !.stopped = TRUE]

\* (variant: the early return is never taken)
RECURSIVE AggregateFromNeverStop(_, _, _, _)
AggregateFromNeverStop(results, k, acc, continueOnError) ==
  IF k > Len(results) THEN acc
  ELSE LET r == results[k] IN
    IF r.success
      THEN AggregateFromNeverStop(results, k + 1,
                         [acc EXCEPT !.successful = Append(@, r.result)], continueOnError)
      ELSE AggregateFromNeverStop(results, k + 1,
                         [acc EXCEPT !.failed = Append(@, [message |-> r.message,
                                             error |-> r.error, index |-> r.index])],
                         continueOnError)

\* for (const result of results) { if (result.success ...) successful.push(result.result)
\*   else { failed.push(...); if (!continueOnError) return {...} } }
\* acc = [successful, failed, stopped]; stopped is TRUE when the early return was taken.
RECURSIVE AggregateFrom(_, _, _, _)
AggregateFrom(results, k, acc, continueOnError) ==
  IF k > Len(results) THEN acc
  ELSE LET r == results[k] IN
    IF r.success
      THEN AggregateFrom(results, k + 1,
                         [acc EXCEPT !.successful = Append(@, r.result)], continueOnError)
      ELSE LET acc2 == [acc EXCEPT !.failed = Append(@, [message |-> r.message, error |-> r.error, index |-> r.index])]
           IN IF ~continueOnError
                THEN [acc2 EXCEPT !.stopped = TRUE]
                ELSE AggregateFrom(results, k + 1, acc2, continueOnError)

Aggregate(results, succ, fail, continueOnError) ==
  AggregateFrom(results, 1, [successful |-> succ, failed |-> fail, stopped |-> FALSE],
                continueOnError)

\* (variant: totalCount counts the messages processed so far)
BatchPublishResultProcessed(succ, fail, msgs) ==
  [ successful   |-> succ,
    failed       |-> fail,
    totalCount   |-> Len(succ) + Len(fail),
    successCount |-> Len(succ),
    failureCount |-> Len(fail) ]

\* return { successful, failed, totalCount: messages.length,
\*          successCount: successful.length, failureCount: failed.length }
BatchPublishResult(succ, fail, msgs) ==
  [ successful   |-> succ,
    failed       |-> fail,
    totalCount   |-> Len(msgs),
    successCount |-> Len(succ),
    failureCount |-> Len(fail) ]

\* value of batchResult while publishBatch has not returned
NoResult ==
  [ successful |-> <<>>, failed |-> <<>>, totalCount |-> -1, successCount |-> -1,
    failureCount |-> -1 ]

\* ------------------------------------------------------------------------
\* publishBatch: the call
\* ------------------------------------------------------------------------

\* the publish calls of the messages of one chunk have been made
MarkInFlight(p, chunk) ==
  [ i \in DOMAIN p |->
      IF \E j \in 1..Len(chunk.items) : chunk.items[j].pos = i THEN "inflight" ELSE p[i] ]

\* Body of publishBatch from the construction of chunks to the first
\* await Promise.all (or to the return, for an empty input).
EnterChunks(msgs, cache) ==
  LET cs == MakeChunks(msgs) IN
    /\ chunks' = cs
    /\ successful' = <<>>
    /\ failed' = <<>>
    /\ chunkPos' = 0
    /\ IF Len(cs) = 0
         THEN /\ batchPc' = "returned"
              /\ batchResult' = BatchPublishResult(<<>>, <<>>, msgs)
              /\ promises' = <<>>
              /\ resolved' = cache
              /\ pub' = [i \in 0..(Len(msgs) - 1) |-> "idle"]
         ELSE /\ batchPc' = "awaiting"
              /\ batchResult' = batchResult
              /\ promises' = ChunkPromises(cs, cs[1], cache, config.destination)
              /\ resolved' = CacheAfterSyncResolve(cache, config.destination)
              /\ pub' = MarkInFlight([i \in 0..(Len(msgs) - 1) |-> "idle"], cs[1])
    /\ cacheLog' = Logged(cacheLog, resolved, resolved')
    /\ batchError' = batchError

\* publishBatch(messages, options) is called with a list whose length is in lengths.
\* sqs: the chunks are built and the first chunk dispatched at once.
\* sns: `await this.resolveTopicArn()` comes first; with a short name and an
\* empty cache the call suspends on the backend's CreateTopic.
PublishBatchCall(lengths) ==
  /\ batchPc = "idle"
  /\ \E n \in lengths, opt \in {"undefined", "true", "false"} :
       /\ messages' = MessageList(n)
       /\ optContinue' = opt
       /\ pubLog' = [i \in 0..(n - 1) |-> [fault |-> "none", sends |-> 0, lookups |-> 0]]
       /\ overtaken' = FALSE
       /\ batchLookups' = IF IsConfigured(config) /\ publisher = "sns"
                               /\ NeedsLookup(resolved, config.destination)
                            THEN 1 ELSE 0
       /\ UNCHANGED firstRun
       /\ IF ~IsConfigured(config)
            THEN /\ batchPc' = "rejected"
                 /\ batchError' = "ConfigurationError"
                 /\ pub' = [i \in 0..(n - 1) |-> "idle"]
                 /\ UNCHANGED <<resolved, chunks, chunkPos, promises, successful,
                                failed, batchResult, cacheLog>>
            ELSE IF publisher = "sns" /\ NeedsLookup(resolved, config.destination)
            THEN /\ batchPc' = "resolving"
                 /\ pub' = [i \in 0..(n - 1) |-> "idle"]
                 /\ UNCHANGED <<resolved, chunks, chunkPos, promises, successful,
                                failed, batchResult, cacheLog, batchError>>
            ELSE EnterChunks(MessageList(n), CacheAfterSyncResolve(resolved, config.destination))
  /\ UNCHANGED <<publisher, logger, lastConfigure, config>>
  /\ UNCHANGED <<pipeVars, callVars, callNo, configureLog, lookupLog>>

\* sns: the CreateTopic call of publishBatch's own resolveTopicArn settles.
\* On failure (rejection, or no TopicArn in the response) resolveTopicArn
\* throws a ConfigurationError outside publishBatch's try block.
BatchResolveSettle ==
  /\ batchPc = "resolving"
  /\ \E ok \in BOOLEAN :
       IF ok
         THEN EnterChunks(messages, AddressOf(config.destination))
         ELSE /\ batchPc' = "rejected"
              /\ batchError' = "ConfigurationError"
              /\ UNCHANGED <<resolved, chunks, chunkPos, promises, successful,
                             failed, batchResult, pub, cacheLog>>
  /\ UNCHANGED <<publisher, logger, lastConfigure, config, messages, optContinue, pubLog, overtaken, batchLookups, firstRun>>
  /\ UNCHANGED <<pipeVars, callVars, callNo, configureLog, lookupLog>>

\* One publish call of the current chunk settles.  fault is the step of
\* publish at which a collaborator fails for this call, if any; kinds are
\* the steps at which the collaborators of the publisher can fail.
PublishSettle(kinds) ==
  /\ batchPc = "awaiting"
  /\ \E j \in 1..Len(promises) :
       /\ promises[j].state = "pending"
       /\ \E fault \in Faults(promises[j].lookup, config.contextResolver) \cap kinds :
            LET p == promises[j]
                address == IF p.lookup THEN AddressOf(config.destination) ELSE resolved
            IN /\ resolved' = IF p.lookup /\ fault # "lookup" THEN address ELSE resolved
               /\ cacheLog' = IF p.lookup /\ fault # "lookup"
                                THEN Append(cacheLog, address) ELSE cacheLog
               /\ promises' = [promises EXCEPT ![j] =
                                 IF fault = "none" THEN Fulfilled(p, address) ELSE Caught(p)]
               /\ pub' = [pub EXCEPT ![p.message.pos] =
                                 IF fault = "none" THEN "ok" ELSE "fail"]
               /\ pubLog' = [pubLog EXCEPT ![p.message.pos] =
                                 [fault |-> fault, sends |-> SendsOf(fault),
                                  lookups |-> IF p.lookup THEN 1 ELSE 0]]
               /\ UNCHANGED <<batchLookups, firstRun>>
               /\ overtaken' =
                    (overtaken \/ \E i \in 1..(j - 1) : promises[i].state = "pending")
  /\ UNCHANGED <<publisher, logger, lastConfigure, config, messages, optContinue, batchPc, chunks, chunkPos,
                 successful, failed, batchResult, batchError>>
  /\ UNCHANGED <<pipeVars, callVars, callNo, configureLog, lookupLog>>

\* Promise.all(promises) resolves: the results of the chunk are aggregated,
\* then the call either returns or dispatches the next chunk.
ChunkSettled ==
  /\ batchPc = "awaiting"
  /\ AllSettled(promises)
  /\ LET acc == Aggregate(Results(promises), successful, failed, ContinueOnError(optContinue))
         next == chunkPos + 1
     IN /\ successful' = acc.successful
        /\ failed' = acc.failed
        /\ IF acc.stopped \/ next >= Len(chunks)
             THEN /\ batchPc' = "returned"
                  /\ batchResult' = BatchPublishResult(acc.successful, acc.failed, messages)
                  /\ UNCHANGED <<chunkPos, promises, resolved, pub>>
             ELSE /\ chunkPos' = next
                  /\ promises' = ChunkPromises(chunks, chunks[next + 1], resolved,
                                               config.destination)
                  /\ resolved' = CacheAfterSyncResolve(resolved, config.destination)
                  /\ pub' = MarkInFlight(pub, chunks[next + 1])
                  /\ UNCHANGED <<batchPc, batchResult>>
        /\ cacheLog' = Logged(cacheLog, resolved, resolved')
  /\ UNCHANGED <<publisher, logger, lastConfigure, config, messages, optContinue, chunks, batchError, pubLog, overtaken, batchLookups, firstRun>>
  /\ UNCHANGED <<pipeVars, callVars, callNo, configureLog, lookupLog>>

\* ------------------------------------------------------------------------
\* publish: calls followed from suspension point to suspension point
\* ------------------------------------------------------------------------

\* the message of the publish call in progress: every call publishes a
\* message of its own
TheMessage == [pos |-> callNo, body |-> callNo]

\* serialized.contentType of the configured serializer
SerializerContentType == "application/json"

\* the explicit attributes a caller passes in options.messageAttributes
ExplicitAttributes ==
  [ k \in {"a", "c", "d", "contentType"} |->
      IF k = "a" THEN [dataType |-> "String", value |-> JsString("explicit")]
      ELSE IF k = "c" THEN [dataType |-> "Number", value |-> JsNumber(7)]
      ELSE IF k = "d" THEN [dataType |-> "Binary", value |-> JsBuffer(<<97, 98>>)]
      ELSE [dataType |-> "String", value |-> JsString("text/plain")] ]

\* the message ids the backend assigns
MessageIds == {"m1", "m2"}

\* value of response before the send has returned
NoResponse == [MessageId |-> "undefined"]

\* value of publishReturn while the call has not settled
NoReturn == [settled |-> "pending"]

\* the call rejected with error = [class, cause, destination]
Rejected(error) == [settled |-> "rejected", error |-> error]

\* an error of the given class without a cause (only a PublishError has a
\* destination field)
Thrown(class) == [class |-> class, cause |-> "none", destination |-> Undefined]

\* new PublishError(message, destination, cause)
PublishError(destination, cause) ==
  [class |-> "PublishError", cause |-> cause.class, destination |-> destination]

\* this.resolvedQueueUrl || this.config?.destination || 'unknown', read when
\* the catch block runs
ErrorDestination == IF resolved' # Undefined THEN resolved' ELSE config.destination

\* (variant: only a PublishError passes the catch block unwrapped)
PublishCatchWrapsConfiguration(error) ==
  IF error.class = "PublishError"
    THEN error
    ELSE PublishError(ErrorDestination, error)

\* (variant: the catch block rethrows whatever it caught)
PublishCatchRethrow(error) == error

\* catch (error) { if (error instanceof PublishError || error instanceof ConfigurationError)
\*   throw error; throw new PublishError(..., destination, error) }
PublishCatch(error) ==
  IF error.class \in {"PublishError", "ConfigurationError"}
    THEN error
    ELSE PublishError(ErrorDestination, error)

\* What resolveQueueUrl / resolveTopicArn throws when the lookup fails.
\* outcome "empty": the response holds no QueueUrl / TopicArn, a
\* ConfigurationError is thrown inside the try block; outcome "rejects": the
\* client's send rejects with an Error.
\* sqs: catch rethrows a ConfigurationError and wraps anything else;
\* sns: catch wraps whatever was thrown.
ResolveError(kind, outcome) ==
  LET inner == IF outcome = "empty" THEN "ConfigurationError" ELSE "Error" IN
    IF kind = "sqs" /\ inner = "ConfigurationError"
      THEN Thrown("ConfigurationError")
      ELSE [class |-> "ConfigurationError", cause |-> inner, destination |-> Undefined]

\* (variant: the attributes from the options go under the enrichment result)
MergeAdditionalUnder(attrs, additional) ==
  IF additional = <<>> THEN attrs ELSE ObjectAssign(additional[1], attrs)

\* enrichMessage: if (additionalAttributes) attributes = { ...attributes, ...additionalAttributes }
MergeAdditional(attrs, additional) ==
  IF additional = <<>> THEN attrs ELSE ObjectAssign(attrs, additional[1])

\* (variant: a contentType already among the attributes is kept)
AddContentTypeIfAbsent(attrs, contentType) ==
  ObjectAssign([k \in {"contentType"} |-> [dataType |-> "String", value |-> JsString(contentType)]], attrs)

\* addContentTypeAttribute(attributes, contentType)
AddContentTypeAttribute(attrs, contentType) ==
  ObjectAssign(attrs, [k \in {"contentType"} |-> [dataType |-> "String", value |-> JsString(contentType)]])

\* (variant: without the statement for the Number type)
ConvertAttributeByFirstStatement(value) ==
  [ DataType    |-> value.dataType,
    StringValue |-> IF value.dataType = "String" THEN <<ToJsString(value.value)>> ELSE <<>>,
    BinaryValue |-> IF value.dataType = "Binary" THEN <<value.value>> ELSE <<>> ]

\* The wire attribute of one attribute (<<>> is undefined, <<x>> is x):
\*   xxxAttributes[key] = { DataType: value.dataType,
\*     StringValue: value.dataType === 'String' ? String(value.value) : undefined,
\*     BinaryValue: value.dataType === 'Binary' ? value.value : undefined };
\*   if (value.dataType === 'Number') xxxAttributes[key].StringValue = String(value.value)
ConvertAttribute(value) ==
  LET first ==
        [ DataType    |-> value.dataType,
          StringValue |-> IF value.dataType = "String"
                            THEN <<ToJsString(value.value)>> ELSE <<>>,
          BinaryValue |-> IF value.dataType = "Binary" THEN <<value.value>> ELSE <<>> ]
  IN IF value.dataType = "Number"
       THEN [first EXCEPT !.StringValue = <<ToJsString(value.value)>>]
       ELSE first

\* convertToSqsAttributes: for (const [key, value] of Object.entries(attributes))
ConvertToSqsAttributes(attrs) == [ k \in DOMAIN attrs |-> ConvertAttribute(attrs[k]) ]

\* convertToSnsAttributes: the same loop on the sns publisher
ConvertToSnsAttributes(attrs) == [ k \in DOMAIN attrs |-> ConvertAttribute(attrs[k]) ]

\* new SendMessageCommand({ QueueUrl, MessageBody, MessageAttributes, ... }) /
\* new PublishCommand({ TopicArn, Message, MessageAttributes, ... })
SendCommand(addr, message, attrs) ==
  [address |-> addr, body |-> message.body,
   attributes |-> IF publisher = "sqs" THEN ConvertToSqsAttributes(attrs)
                                       ELSE ConvertToSnsAttributes(attrs)]

PipeRunUnchanged ==
  UNCHANGED <<enrichPc, enrichPos, allAttributes, outcomes, enrichReturn, inflight, invocations,
              received>>

\* Whether a call of this.logger.debug / info / error throws: the NoOpLogger
\* does nothing and the LoggerWrapper catches what the sink throws
\* (safeLog); a logger of the caller put into the configuration as it is
\* may throw.
SinkFailures == IF logger = "Logger" THEN BOOLEAN ELSE {FALSE}

\* the error a throwing logger sink throws
SinkError == Thrown("Error")

\* the call is in progress
PublishPending ==
  /\ publishFault' = "none"
  /\ publishReturn' = NoReturn

\* The call leaves publish through the catch block with the error thrown.
\* sns: the catch block first calls this.logger.error('Failed to publish
\* message', ...); what that call throws replaces the error.
PublishRejects(fault, error) ==
  /\ publishPc' = "rejected"
  /\ publishFault' = fault
  /\ \E threw \in SinkFailures :
       publishReturn' = Rejected(IF threw THEN SinkError ELSE PublishCatch(error))

\* the values a context resolver returns
ContextValues == { [ k \in {"correlationId"} |-> v ] : v \in {"c1", "c2"} }

\* the events of a step that begins and completes without suspension
Whole(step) == <<step, step \o ":done">>

\* a logger call inside the try block threw, after the steps of trace and
\* with ctx as local context
LogRejects(trace, ctx) ==
  /\ PublishRejects("log", SinkError)
  /\ attributes' = attributes
  /\ steps' = trace
  /\ context' = ctx
  /\ PipeRunUnchanged

\* publish from `const attributes = await this.enrichMessage(...)` to its next
\* suspension: enrichMessage starts the pipeline when there is one
\* sns: this.logger.debug('Applying enrichers', ...) comes before it when
\* the configuration has enrichers
\* trace: the steps so far; ctx: what resolveContext returned
FromEnrich(additional, trace, ctx) ==
  IF enrichmentPipeline.defined
    THEN \E threw \in IF Len(config.enrichers) > 0 THEN SinkFailures ELSE {FALSE} :
           IF threw
             THEN LogRejects(trace, ctx)
             ELSE /\ publishPc' = "enriching"
                  /\ attributes' = EmptyObject
                  /\ steps' = Append(trace, "enrich")
                  /\ context' = ctx
                  /\ EnrichBegin(ctx)
                  /\ PublishPending
    ELSE /\ publishPc' = "serializing"
         /\ attributes' = MergeAdditional(EmptyObject, additional)
         /\ steps' = trace \o Whole("enrich") \o <<"serialize">>
         /\ context' = ctx
         /\ PipeRunUnchanged
         /\ PublishPending

\* resolveContext(): if (this.config?.contextResolver) return await
\* this.config.contextResolver.resolve(); return {}
ResolveContext(trace) ==
  IF config.contextResolver
    THEN trace \o <<"context", "contextResolver.resolve">>
    ELSE trace \o Whole("context")

\* publish from `const context = await this.resolveContext()` to its next suspension
FromContext(additional, trace) ==
  IF config.contextResolver
    THEN /\ publishPc' = "context"
         /\ attributes' = attributes
         /\ steps' = ResolveContext(trace)
         /\ context' = EmptyObject
         /\ PipeRunUnchanged
         /\ PublishPending
    ELSE FromEnrich(additional, ResolveContext(trace), EmptyObject)

\* publish from the return of resolveQueueUrl / resolveTopicArn to its next
\* suspension; sns: this.logger.debug('Publishing message', ...) comes first
FromResolved(additional, trace) ==
  \E threw \in SinkFailures :
    IF threw THEN LogRejects(trace, EmptyObject) ELSE FromContext(additional, trace)

\* publish(message, options) is called.  ensureConfigured comes before the
\* try block: on a publisher without configuration the call rejects with
\* its ConfigurationError at once.
PublishCall ==
  /\ publishPc = "idle"
  /\ response' = NoResponse
  /\ callNo' = callNo + 1
  /\ \E opts \in { <<>>, <<ExplicitAttributes>> } :  \* options?.messageAttributes
       /\ optAttributes' = opts
       /\ IF ~IsConfigured(config)
            THEN /\ publishPc' = "rejected"
                 /\ publishFault' = "none"
                 /\ publishReturn' = Rejected(Thrown("ConfigurationError"))
                 /\ steps' = <<>>
                 /\ context' = EmptyObject
                 /\ UNCHANGED <<resolved, queueUrl, attributes, lookupLog, cacheLog>>
                 /\ PipeRunUnchanged
            ELSE /\ IF NeedsLookup(resolved, config.destination)
                      THEN /\ publishPc' = "lookup"
                           /\ PublishPending
                           /\ steps' = <<"resolve">>
                           /\ context' = EmptyObject
                           /\ lookupLog' = Append(lookupLog,
                                                  [call |-> callNo + 1,
                                                   destination |-> config.destination,
                                                   state |-> "pending"])
                           /\ UNCHANGED <<resolved, queueUrl, attributes, cacheLog>>
                           /\ PipeRunUnchanged
                      ELSE /\ resolved' = CacheAfterSyncResolve(resolved, config.destination)
                           /\ queueUrl' = CacheAfterSyncResolve(resolved, config.destination)
                           /\ cacheLog' = Logged(cacheLog, resolved, resolved')
                           /\ lookupLog' = lookupLog
                           /\ FromResolved(opts, Whole("resolve"))
  /\ UNCHANGED <<publisher, logger, lastConfigure, config, enrichmentPipeline, arrays, sends, configureLog>>
  /\ UNCHANGED batchCallVars

\* the GetQueueUrl / CreateTopic call of resolveQueueUrl / resolveTopicArn
\* settles: with an address, with a response without address, or by rejecting
LookupSettle ==
  /\ publishPc = "lookup"
  /\ UNCHANGED response
  /\ LET n == Len(lookupLog)
         destination == lookupLog[n].destination
     IN \E outcome \in {"address", "empty", "rejects"} :
          IF outcome = "address"
            THEN /\ resolved' = AddressOf(destination)
                 /\ queueUrl' = AddressOf(destination)
                 /\ cacheLog' = Append(cacheLog, AddressOf(destination))
                 /\ lookupLog' = [lookupLog EXCEPT ![n].state = "ok"]
                 /\ FromResolved(optAttributes, Append(steps, "resolve:done"))
            ELSE /\ UNCHANGED <<resolved, queueUrl, attributes, cacheLog, steps, context>>
                 /\ PublishRejects("lookup", ResolveError(publisher, outcome))
                 /\ lookupLog' = [lookupLog EXCEPT ![n].state = "failed"]
                 /\ PipeRunUnchanged
  /\ UNCHANGED <<publisher, logger, lastConfigure, config, enrichmentPipeline, arrays, sends, optAttributes, callNo,
                 configureLog>>
  /\ UNCHANGED batchCallVars

\* contextResolver.resolve() settles
ContextSettle ==
  /\ publishPc = "context"
  /\ UNCHANGED <<resolved, response>>
  /\ \/ \E returned \in ContextValues :
          FromEnrich(optAttributes, Append(steps, "context:done"), returned)
     \/ /\ PublishRejects("context", Thrown("Error"))
        /\ UNCHANGED <<attributes, steps, context>>
        /\ PipeRunUnchanged
  /\ UNCHANGED <<publisher, logger, lastConfigure, config, enrichmentPipeline, arrays, queueUrl, sends,
                 optAttributes, histVars>>
  /\ UNCHANGED batchCallVars

\* enrichMessage resumes after `await this.enrichmentPipeline.enrich(message, context)`
\* and merges the attributes of the options over the result
EnrichMessageResume ==
  /\ publishPc = "enriching"
  /\ UNCHANGED <<resolved, response>>
  /\ enrichPc \in {"resolved", "rejected"}
  /\ IF enrichPc = "resolved"
       THEN /\ attributes' = MergeAdditional(enrichReturn, optAttributes)
            /\ publishPc' = "serializing"
            /\ steps' = steps \o <<"enrich:done", "serialize">>
            /\ UNCHANGED <<publishFault, publishReturn>>
       ELSE /\ PublishRejects("none", Thrown("Error"))
            /\ UNCHANGED <<attributes, steps>>
  /\ UNCHANGED context
  /\ UNCHANGED <<publisher, logger, lastConfigure, config, pipeVars, queueUrl, sends, optAttributes,
                 histVars>>
  /\ UNCHANGED batchCallVars

\* (variant: the command is sent while the serializer is still running)
SendBeforeSerialized(trace) == trace \o <<"send", "serialize:done">>

\* const serialized = await serializer.serialize(message); ...;
\* await client.send(command): the send begins once serialize has completed
SerializedThenSend(trace) == trace \o <<"serialize:done", "send">>

\* serializer.serialize(message) settles; on success (sns: after
\* this.logger.debug('Serializing message', ...)) the content type is added
\* to the attributes and the send command is given to the client
SerializeSettle ==
  /\ publishPc = "serializing"
  /\ UNCHANGED <<resolved, response>>
  /\ \E ok \in BOOLEAN :
       IF ok
         THEN \E threw \in SinkFailures :
                IF threw
                  THEN /\ PublishRejects("log", SinkError)
                       /\ steps' = Append(steps, "serialize:done")
                       /\ UNCHANGED sends
                  ELSE /\ publishPc' = "sending"
                       /\ steps' = SerializedThenSend(steps)
                       /\ sends' = Append(sends,
                                     SendCommand(queueUrl, TheMessage,
                                       AddContentTypeAttribute(attributes,
                                                               SerializerContentType)))
                       /\ PublishPending
         ELSE /\ PublishRejects("serialize", Thrown("SerializationError"))
              /\ UNCHANGED <<sends, steps>>
  /\ UNCHANGED context
  /\ UNCHANGED <<publisher, logger, lastConfigure, config, pipeVars, queueUrl, attributes, optAttributes,
                 histVars>>
  /\ UNCHANGED batchCallVars

\* the client's send(command) settles; sns: on success
\* this.logger.info('Message published successfully', ...) comes before the return
SendSettle ==
  /\ publishPc = "sending"
  /\ UNCHANGED resolved
  /\ \E ok \in BOOLEAN :
       IF ok
         THEN /\ steps' = Append(steps, "send:done")
              /\ \E id \in MessageIds : response' = [MessageId |-> id]
              /\ \E threw \in SinkFailures :
                   IF threw
                     THEN PublishRejects("log", SinkError)
                     ELSE /\ publishPc' = "resolved"
                          /\ publishReturn' = [settled |-> "resolved",
                                               result |-> PublishResult(response', queueUrl)]
                          /\ UNCHANGED publishFault
         ELSE /\ PublishRejects("send", Thrown("Error"))
              /\ UNCHANGED <<steps, response>>
  /\ UNCHANGED context
  /\ UNCHANGED <<publisher, logger, lastConfigure, config, pipeVars, queueUrl, attributes, sends,
                 optAttributes, histVars>>
  /\ UNCHANGED batchCallVars

\* the caller has awaited the settled call and may issue the next one
AwaitPublish ==
  /\ publishPc \in {"resolved", "rejected"}
  /\ callNo < MaxCalls
  /\ publishPc' = "idle"
  /\ UNCHANGED <<optAttributes, queueUrl, attributes, sends, publishFault, publishReturn,
                 steps, context, response>>
  /\ UNCHANGED <<batchVars, pipeVars, histVars>>

\* (variant: the cache field survives a configuration change)
CacheKeptAfterConfiguration(cache) == cache

\* applyConfiguration: this.resolvedQueueUrl = undefined / this.resolvedTopicArn = undefined
CacheAfterConfiguration(cache) == Undefined

\* this.config = config; if (config.enrichers && config.enrichers.length > 0)
\*   this.enrichmentPipeline = new EnrichmentPipeline(config.enrichers)
PipelineAfterConfiguration(pipeline, cfg) ==
  IF Len(cfg.enrichers) > 0 THEN NewPipeline(cfg.enrichers) ELSE pipeline

\* the enricher arrays after applyConfiguration(cfg)
ArraysAfterConfiguration(current, cfg) ==
  IF Len(cfg.enrichers) > 0 THEN ArraysAfterConstruction(cfg.enrichers) ELSE current

\* sns applyConfiguration: if (config.logger) { this.logger = config.logger }
\* (the sqs publisher has no logger field and makes no logger call)
LoggerAfterConfiguration(current, cfg) ==
  IF publisher = "sqs" \/ cfg.logger = "undefined" THEN current ELSE cfg.logger

\* the entry of configureLog for a configuration applied now
Applied(cfg) ==
  [calls |-> callNo, destination |-> cfg.destination,
   contextResolver |-> cfg.contextResolver]

\* configure(callback) with a callback that builds cfg: applyConfiguration(cfg)
Configure(cfgs) ==
  /\ Len(configureLog) <= MaxConfigures
  /\ \E cfg \in cfgs :
       /\ config' = cfg
       /\ logger' = LoggerAfterConfiguration(logger, cfg)
       /\ enrichmentPipeline' = PipelineAfterConfiguration(enrichmentPipeline, cfg)
       /\ arrays' = ArraysAfterConfiguration(arrays, cfg)
       /\ configureLog' = Append(configureLog, Applied(cfg))
  /\ resolved' = CacheAfterConfiguration(resolved)
  /\ cacheLog' = <<>>
  /\ UNCHANGED <<publisher, lastConfigure, batchCallVars, callVars, callNo, lookupLog>>
  /\ UNCHANGED <<enrichPc, enrichPos, allAttributes, outcomes, enrichReturn, inflight,
                 invocations, received>>

\* the empty string given as destination
EmptyString == [form |-> "empty", id |-> ""]

\* One call of a method of the builder.  method "destination" is topicArn /
\* topicName / queueUrl / queueName, "serializer" is serializer(s) with a
\* serializer of the caller, "enrichers" is enrichers(list), "addEnricher"
\* is addEnricher(e) with call.enrichers = <<e>>.
BuilderCall(b, call) ==
  IF call.method = "destination" THEN [b EXCEPT !.destination = call.destination]
  ELSE IF call.method = "serializer" THEN [b EXCEPT !.serializer = "CustomSerializer"]
  ELSE IF call.method = "enrichers" THEN [b EXCEPT !.enrichers = call.enrichers]
  ELSE [b EXCEPT !.enrichers = Append(@, call.enrichers[1])]

\* the builder after the calls of a callback
RECURSIVE BuilderAfter(_, _)
BuilderAfter(b, calls) ==
  IF calls = <<>> THEN b ELSE BuilderAfter(BuilderCall(b, Head(calls)), Tail(calls))

\* (variant: build() does not validate the builder)
BuildWithoutValidation(b) ==
  [ok |-> TRUE, error |-> Thrown("none"),
   config |-> [destination |-> b.destination,
               serializer |-> IF b.serializer = "undefined"
                                THEN "JsonMessageSerializer" ELSE b.serializer,
               enrichers |-> b.enrichers,
               contextResolver |-> b.contextResolver,
               logger |-> IF b.logger = "undefined" THEN "NoOpLogger" ELSE "LoggerWrapper"]]

\* (variant: the serializer of the configuration is the one of the builder,
\* which may be undefined)
BuildWithoutDefault(b) ==
  IF b.destination \in {Undefined, EmptyString}
    THEN [ok |-> FALSE, error |-> Thrown("ConfigurationError"), config |-> NoConfig]
    ELSE [ok |-> TRUE, error |-> Thrown("none"),
          config |-> [destination |-> b.destination,
                      serializer |-> b.serializer,
                      enrichers |-> b.enrichers,
                      contextResolver |-> b.contextResolver,
                      logger |-> IF b.logger = "undefined"
                                   THEN "NoOpLogger" ELSE "LoggerWrapper"]]

\* build(): validate() throws a ConfigurationError if (!this._destination);
\* the serializer defaults to a JsonMessageSerializer; the logger of the
\* caller is wrapped, without one the logger is a NoOpLogger
Build(b) ==
  IF b.destination \in {Undefined, EmptyString}
    THEN [ok |-> FALSE, error |-> Thrown("ConfigurationError"), config |-> NoConfig]
    ELSE [ok |-> TRUE, error |-> Thrown("none"),
          config |-> [destination |-> b.destination,
                      serializer |-> IF b.serializer = "undefined"
                                       THEN "JsonMessageSerializer" ELSE b.serializer,
                      enrichers |-> b.enrichers,
                      contextResolver |-> b.contextResolver,
                      logger |-> IF b.logger = "undefined"
                                   THEN "NoOpLogger" ELSE "LoggerWrapper"]]

\* value of lastConfigure before any configure(callback) call
NoConfigure ==
  [calls |-> <<>>, callback |-> "none", outcome |-> "none", error |-> Thrown("none"),
   built |-> NoConfig]

\* configure(callback): const configBuilder = new XxxPublisherConfiguration();
\* callback(configBuilder); const builtConfig = configBuilder.build();
\* this.applyConfiguration(builtConfig); return this.
\* callbacks: the sequences of builder calls a callback makes; throwing:
\* whether the callback throws after its calls.  What the callback or
\* build() throws leaves configure before applyConfiguration is reached.
ConfigureWith(callbacks, throwing) ==
  /\ Len(configureLog) <= MaxConfigures
  /\ \E calls \in callbacks, threw \in throwing :
       LET configBuilder == [destination |-> Undefined, serializer |-> "undefined",
                             enrichers |-> <<>>, contextResolver |-> FALSE,
                             logger |-> "undefined"]
           result == Build(BuilderAfter(configBuilder, calls)) IN
         IF threw
           THEN /\ lastConfigure' = [calls |-> calls, callback |-> "threw",
                                     outcome |-> "threw", error |-> Thrown("Error"),
                                     built |-> NoConfig]
                /\ UNCHANGED <<config, logger, enrichmentPipeline, arrays, configureLog, resolved,
                               cacheLog>>
           ELSE IF result.ok
           THEN /\ lastConfigure' = [calls |-> calls, callback |-> "returned",
                                     outcome |-> "returned",
                                     error |-> result.error, built |-> result.config]
                /\ config' = result.config
                /\ logger' = LoggerAfterConfiguration(logger, result.config)
                /\ enrichmentPipeline' =
                     PipelineAfterConfiguration(enrichmentPipeline, result.config)
                /\ arrays' = ArraysAfterConfiguration(arrays, result.config)
                /\ configureLog' = Append(configureLog, Applied(result.config))
                /\ resolved' = CacheAfterConfiguration(resolved)
                /\ cacheLog' = <<>>
           ELSE /\ lastConfigure' = [calls |-> calls, callback |-> "returned",
                                     outcome |-> "threw",
                                     error |-> result.error, built |-> result.config]
                /\ UNCHANGED <<config, logger, enrichmentPipeline, arrays, configureLog, resolved,
                               cacheLog>>
  /\ UNCHANGED <<publisher, batchCallVars, callVars, callNo, lookupLog>>
  /\ UNCHANGED <<enrichPc, enrichPos, allAttributes, outcomes, enrichReturn, inflight,
                 invocations, received>>

\* configure is called while no publish, publishBatch or enrich call is in progress
ConfigureBetweenCalls(cfgs) ==
  /\ publishPc = "idle"
  /\ batchPc \in {"idle", "returned", "rejected"}
  /\ enrichPc # "running"
  /\ Configure(cfgs)

\* ------------------------------------------------------------------------
\* Specification of the batch dispatcher
\* ------------------------------------------------------------------------

vars == <<batchVars, pipeVars, callVars, histVars>>

\* a configuration without enrichers
Configs(contextResolvers) ==
  [destination : Destinations, enrichers : {<<>>}, contextResolver : contextResolvers,
   logger : {"NoOpLogger"},
   serializer : {"JsonMessageSerializer"}]

\* no publishBatch call, no enrich call and no publish call has been made
Idle ==
  /\ messages = <<>>
  /\ optContinue = "undefined"
  /\ batchPc = "idle"
  /\ chunks = <<>>
  /\ chunkPos = 0
  /\ promises = <<>>
  /\ successful = <<>>
  /\ failed = <<>>
  /\ batchResult = NoResult
  /\ pub = <<>>
  /\ enrichPc = "idle"
  /\ enrichPos = 0
  /\ allAttributes = EmptyObject
  /\ outcomes = <<>>
  /\ enrichReturn = EmptyObject
  /\ publishPc = "idle"
  /\ queueUrl = Undefined
  /\ attributes = EmptyObject
  /\ sends = <<>>
  /\ publishFault = "none"
  /\ publishReturn = NoReturn
  /\ batchError = "none"
  /\ pubLog = <<>>
  /\ overtaken = FALSE
  /\ batchLookups = 0
  /\ firstRun = [done |-> FALSE, length |-> 0, continueOnError |-> "undefined",
                 faults |-> <<>>, outcome |-> "none", error |-> "none",
                 successCount |-> 0, failureCount |-> 0, failedIndices |-> <<>>,
                 lookups |-> 0, sends |-> 0]
  /\ steps = <<>>
  /\ response = NoResponse
  /\ context = EmptyObject
  /\ received = <<>>
  /\ inflight = {}
  /\ invocations = <<>>
  /\ optAttributes = <<>>
  /\ callNo = 0
  /\ lookupLog = <<>>
  /\ cacheLog = <<>>

\* the publisher after new XxxMessagePublisher(client, cfg)
Constructed(cfg) ==
  /\ config = cfg
  /\ lastConfigure = NoConfigure
  /\ logger = LoggerAfterConfiguration("NoOpLogger", cfg)
  /\ enrichmentPipeline = PipelineAfterConfiguration(NoPipeline, cfg)
  /\ arrays = ArraysAfterConfiguration(NoArrays, cfg)
  /\ resolved = Undefined
  /\ configureLog = <<[calls |-> 0, destination |-> cfg.destination,
                       contextResolver |-> cfg.contextResolver]>>

\* the publisher after new XxxMessagePublisher(client)
Unconfigured ==
  /\ config = NoConfig
  /\ lastConfigure = NoConfigure
  /\ logger = "NoOpLogger"
  /\ enrichmentPipeline = NoPipeline
  /\ arrays = NoArrays
  /\ resolved = Undefined
  /\ configureLog = <<>>

\* Spec: both publishers, both destination forms, batches of one chunk.
Init ==
  /\ publisher \in {"sqs", "sns"}
  /\ \E cfg \in Configs(BOOLEAN) : Constructed(cfg)
  /\ Idle

Next ==
  \/ PublishBatchCall(0..MaxMsgs)
  \/ BatchResolveSettle
  \/ PublishSettle(FaultKinds)
  \/ ChunkSettled

Spec == Init /\ [][Next]_vars

\* SpecFair: Spec, where every collaborator call settles in the end: a
\* pending name lookup of publishBatch settles, a pending publish call
\* settles, and a publishBatch call whose await can resume resumes.
SpecFair ==
  /\ Init
  /\ [][Next]_vars
  /\ WF_vars(BatchResolveSettle)
  /\ WF_vars(PublishSettle(FaultKinds))
  /\ WF_vars(ChunkSettled)

\* SpecLong: batches long enough to span several chunks, on the sns
\* publisher configured with a topic name; a publish call that fails, fails
\* at its send.
InitLong ==
  /\ publisher = "sns"
  /\ \E cfg \in Configs({FALSE}) : cfg.destination.form = "name" /\ Constructed(cfg)
  /\ Idle

NextLong ==
  \/ PublishBatchCall((chunkSize + 1)..MaxLongMsgs)
  \/ BatchResolveSettle
  \/ PublishSettle({"none", "send"})
  \/ ChunkSettled

SpecLong == InitLong /\ [][NextLong]_vars

\* SpecChunk: the chunking loop of publishBatch applied to input lists of
\* every length up to MaxBatch.
InitChunk ==
  /\ publisher = "sqs"
  /\ \E cfg \in Configs({FALSE}) : cfg.destination.form = "canonical" /\ Constructed(cfg)
  /\ Idle

ChooseMessages ==
  /\ batchPc = "idle"
  /\ \E n \in 0..MaxBatch : messages' = MessageList(n)
  /\ batchPc' = "called"
  /\ UNCHANGED <<publisher, logger, lastConfigure, config, resolved, optContinue, chunks, chunkPos, promises,
                 successful, failed, batchResult, pub, batchError, pubLog, overtaken, batchLookups, firstRun>>
  /\ UNCHANGED <<pipeVars, callVars, histVars>>

ApplyChunking ==
  /\ batchPc = "called"
  /\ chunks' = MakeChunks(messages)
  /\ batchPc' = "chunked"
  /\ UNCHANGED <<publisher, logger, lastConfigure, config, resolved, messages, optContinue, chunkPos, promises,
                 successful, failed, batchResult, pub, batchError, pubLog, overtaken, batchLookups, firstRun>>
  /\ UNCHANGED <<pipeVars, callVars, histVars>>

NextChunk ==
  \/ ChooseMessages
  \/ ApplyChunking

SpecChunk == InitChunk /\ [][NextChunk]_vars

\* SpecPipeline: an EnrichmentPipeline constructed from any list of up to
\* MaxEnrichers enrichers, and one call of enrich on it.
InitPipeline ==
  /\ publisher = "sqs"
  /\ config \in [destination : {d \in Destinations : IsCanonical(d)},
                  enrichers : EnricherLists(MaxEnrichers),
                  contextResolver : {FALSE},
                  logger : {"NoOpLogger"},
                  serializer : {"JsonMessageSerializer"}]
  /\ logger = "NoOpLogger"
  /\ lastConfigure = NoConfigure
  /\ enrichmentPipeline = NoPipeline
  /\ arrays = NoArrays
  /\ resolved = Undefined
  /\ configureLog = <<>>
  /\ Idle

NextPipeline ==
  \/ ConstructPipeline
  \/ EnrichCall
  \/ EnricherSettle
  \/ EnrichReturn

SpecPipeline == InitPipeline /\ [][NextPipeline]_vars

\* SpecArrays: a pipeline is constructed from the caller's array, the caller
\* calls getEnrichers and modifies the arrays it was given, and enrich is called.

\* getEnrichers(): return [...this.sortedEnrichers]
GetEnrichersCall ==
  /\ enrichmentPipeline.defined
  /\ Len(arrays.heap) < 2 + MaxGets
  /\ LET copy == Spread(arrays.heap, arrays.sorted) IN
       arrays' = [arrays EXCEPT !.heap = copy.heap, !.got = copy.ref, !.fresh = TRUE]
  /\ UNCHANGED <<enrichmentPipeline, enrichPc, enrichPos, allAttributes, outcomes,
                 enrichReturn, inflight, invocations, received>>
  /\ UNCHANGED <<batchVars, callVars, histVars>>

\* the elements of an array after reverse(), pop(), or length = 0
Modified(xs, how) ==
  CASE how = "reverse" -> [i \in 1..Len(xs) |-> xs[Len(xs) + 1 - i]]
    [] how = "pop" -> SubSeq(xs, 1, Len(xs) - 1)
    [] how = "clear" -> <<>>

\* the caller modifies the array the last getEnrichers call returned; the
\* pipeline's loop `for (const enricher of this.sortedEnrichers)` goes over
\* the array object this.sortedEnrichers as it then is
ModifyReturned ==
  /\ arrays.got # 0
  /\ \E how \in {"reverse", "pop", "clear"} :
       LET heap == [arrays.heap EXCEPT ![arrays.got] = Modified(@, how)] IN
         /\ heap # arrays.heap
         /\ arrays' = [arrays EXCEPT !.heap = heap, !.fresh = FALSE,
                                      !.early = @ \/ enrichPc = "idle"]
         /\ enrichmentPipeline' =
              [enrichmentPipeline EXCEPT !.sortedEnrichers = heap[arrays.sorted]]
  /\ UNCHANGED <<enrichPc, enrichPos, allAttributes, outcomes, enrichReturn, inflight,
                 invocations, received>>
  /\ UNCHANGED <<batchVars, callVars, histVars>>

\* the caller's arrays: up to MaxArrayEnrichers enrichers of any priority,
\* each returning the attribute "a"
InitArrays ==
  /\ publisher = "sqs"
  /\ config \in [destination : {d \in Destinations : IsCanonical(d)},
                  enrichers : { es \in EnricherLists(MaxArrayEnrichers) :
                                  \A i \in DOMAIN es : es[i].keys = {"a"} },
                  contextResolver : {FALSE},
                  logger : {"NoOpLogger"},
                  serializer : {"JsonMessageSerializer"}]
  /\ logger = "NoOpLogger"
  /\ lastConfigure = NoConfigure
  /\ enrichmentPipeline = NoPipeline
  /\ arrays = NoArrays
  /\ resolved = Undefined
  /\ configureLog = <<>>
  /\ Idle

NextArrays ==
  \/ ConstructPipeline
  \/ GetEnrichersCall
  \/ ModifyReturned
  \/ EnrichCall
  \/ EnricherSettle
  \/ EnrichReturn

SpecArrays == InitArrays /\ [][NextArrays]_vars

\* SpecPublish: one publish call on a publisher constructed with any
\* configuration of up to MaxConfigEnrichers enrichers.
InitPublish ==
  /\ publisher \in {"sqs", "sns"}
  /\ \E cfg \in [destination : Destinations,
                 enrichers : EnricherLists(MaxConfigEnrichers),
                 contextResolver : BOOLEAN,
                 logger : {"NoOpLogger"},
                 serializer : {"JsonMessageSerializer"}] : Constructed(cfg)
  /\ Idle

NextPublish ==
  \/ PublishCall
  \/ LookupSettle
  \/ ContextSettle
  \/ EnricherSettle
  \/ EnrichReturn
  \/ EnrichMessageResume
  \/ SerializeSettle
  \/ SendSettle

SpecPublish == InitPublish /\ [][NextPublish]_vars

\* configurations without enrichers and without context resolver, for any
\* destination
LifecycleConfigs ==
  [destination : AllDestinations, enrichers : {<<>>}, contextResolver : {FALSE},
   logger : {"NoOpLogger"},
   serializer : {"JsonMessageSerializer"}]

\* SpecLifecycle: up to MaxCalls publish calls issued one after another,
\* and configure calls between them.
InitLifecycle ==
  /\ publisher \in {"sqs", "sns"}
  /\ \E cfg \in LifecycleConfigs : Constructed(cfg)
  /\ Idle

NextLifecycle ==
  \/ PublishCall
  \/ LookupSettle
  \/ SerializeSettle
  \/ SendSettle
  \/ AwaitPublish
  \/ ConfigureBetweenCalls(LifecycleConfigs)

SpecLifecycle == InitLifecycle /\ [][NextLifecycle]_vars

\* SpecFresh: a publisher constructed without configuration; publish and
\* publishBatch are called on it before or after its first configure.
InitFresh ==
  /\ publisher \in {"sqs", "sns"}
  /\ Unconfigured
  /\ Idle

NextFresh ==
  \/ PublishCall
  \/ PublishBatchCall(0..MaxFreshMsgs)
  \/ ConfigureBetweenCalls(Configs({FALSE}))
  \/ LookupSettle
  \/ SerializeSettle
  \/ SendSettle
  \/ BatchResolveSettle
  \/ PublishSettle(FaultKinds)
  \/ ChunkSettled

SpecFresh == InitFresh /\ [][NextFresh]_vars

\* SpecLogging: publish calls issued one after another on an sns publisher
\* constructed with a configuration that carries any logger (none, the
\* NoOpLogger or the LoggerWrapper the builders put in, or a logger of the
\* caller), and configure calls (through the builder) between them.
InitLogging ==
  /\ publisher = "sns"
  /\ \E cfg \in [destination : Destinations, enrichers : {<<>>},
                 contextResolver : BOOLEAN, logger : {"undefined", "NoOpLogger", "LoggerWrapper", "Logger"},
                 serializer : {"JsonMessageSerializer"}] : Constructed(cfg)
  /\ Idle

NextLogging ==
  \/ PublishCall
  \/ LookupSettle
  \/ ContextSettle
  \/ SerializeSettle
  \/ SendSettle
  \/ AwaitPublish
  \/ ConfigureBetweenCalls([destination : Destinations, enrichers : {<<>>},
                            contextResolver : BOOLEAN,
                            logger : {"NoOpLogger", "LoggerWrapper"},
                            serializer : {"JsonMessageSerializer"}])

SpecLogging == InitLogging /\ [][NextLogging]_vars

\* configurations without enrichers, for any destination, with or without
\* context resolver
InterleaveConfigs ==
  [destination : AllDestinations, enrichers : {<<>>}, contextResolver : BOOLEAN,
   logger : {"NoOpLogger"},
   serializer : {"JsonMessageSerializer"}]

\* SpecInterleave: up to MaxCalls publish calls issued one after another;
\* configure is called at any moment, also while a publish call is
\* suspended at one of its awaits.
InitInterleave ==
  /\ publisher \in {"sqs", "sns"}
  /\ \E cfg \in InterleaveConfigs : Constructed(cfg)
  /\ Idle

NextInterleave ==
  \/ PublishCall
  \/ LookupSettle
  \/ ContextSettle
  \/ SerializeSettle
  \/ SendSettle
  \/ AwaitPublish
  \/ Configure(InterleaveConfigs)

SpecInterleave == InitInterleave /\ [][NextInterleave]_vars

\* configurations with a canonical destination and up to
\* MaxReconfigEnrichers enrichers without getPriority
ReconfigureConfigs ==
  [destination : {d \in Destinations : IsCanonical(d)},
   enrichers : { es \in EnricherLists(MaxReconfigEnrichers) :
                   \A i \in DOMAIN es : es[i].getPriority = <<>> },
   contextResolver : {FALSE},
   logger : {"NoOpLogger"},
   serializer : {"JsonMessageSerializer"}]

\* SpecReconfigure: publish calls issued one after another on a publisher
\* with enrichers, and configure calls between them that replace the list
\* of enrichers.
InitReconfigure ==
  /\ publisher \in {"sqs", "sns"}
  /\ \E cfg \in ReconfigureConfigs : Constructed(cfg)
  /\ Idle

NextReconfigure ==
  \/ PublishCall
  \/ EnricherSettle
  \/ EnrichReturn
  \/ EnrichMessageResume
  \/ SerializeSettle
  \/ SendSettle
  \/ AwaitPublish
  \/ ConfigureBetweenCalls(ReconfigureConfigs)

SpecReconfigure == InitReconfigure /\ [][NextReconfigure]_vars

\* the sum of f over the input positions 0..(n - 1)
RECURSIVE SumTo(_, _)
SumTo(f, n) == IF n = 0 THEN 0 ELSE f[n - 1] + SumTo(f, n - 1)

\* What the caller of a settled publishBatch call and the backend have
\* seen of it: how it settled, the counts and failed indices of its result,
\* and the numbers of name lookups and of sends made.
Observed ==
  [outcome       |-> batchPc,
   error         |-> batchError,
   successCount  |-> batchResult.successCount,
   failureCount  |-> batchResult.failureCount,
   failedIndices |-> [ i \in DOMAIN batchResult.failed |-> batchResult.failed[i].index ],
   lookups       |-> batchLookups
                       + SumTo([ q \in DOMAIN pubLog |-> pubLog[q].lookups ], Len(messages)),
   sends         |-> SumTo([ q \in DOMAIN pubLog |-> pubLog[q].sends ], Len(messages))]

\* publishBatch(messages, options) on the sqs publisher
FirstBatchCall ==
  /\ ~firstRun.done
  /\ PublishBatchCall(0..MaxMsgs)

\* a publish call of the batch on the sqs publisher settles
FirstPublishSettle ==
  /\ ~firstRun.done
  /\ PublishSettle(FaultKinds)

\* The batch has settled on the sqs publisher.  An sns publisher is
\* constructed with the same configuration: new SnsMessagePublisher(client,
\* config).
ConstructSnsPublisher ==
  /\ publisher = "sqs"
  /\ ~firstRun.done
  /\ batchPc \in {"returned", "rejected"}
  /\ firstRun' = [done |-> TRUE, length |-> Len(messages), continueOnError |-> optContinue,
                  faults |-> [ q \in DOMAIN pubLog |-> pubLog[q].fault ]] @@ Observed
  /\ publisher' = "sns"
  /\ resolved' = Undefined
  /\ cacheLog' = <<>>
  /\ messages' = <<>>
  /\ optContinue' = "undefined"
  /\ batchPc' = "idle"
  /\ chunks' = <<>>
  /\ chunkPos' = 0
  /\ promises' = <<>>
  /\ successful' = <<>>
  /\ failed' = <<>>
  /\ batchResult' = NoResult
  /\ pub' = <<>>
  /\ batchError' = "none"
  /\ pubLog' = <<>>
  /\ overtaken' = FALSE
  /\ batchLookups' = 0
  /\ UNCHANGED <<logger, lastConfigure, config, pipeVars, callVars, callNo, configureLog,
                 lookupLog>>

\* publishBatch on the sns publisher with the messages and options given
\* to the sqs publisher
SecondBatchCall ==
  /\ firstRun.done
  /\ PublishBatchCall({firstRun.length})
  /\ optContinue' = firstRun.continueOnError

\* the name lookup of publishBatch on the sns publisher settles as the
\* name lookups did on the sqs publisher: it fails when one of them failed
SecondResolveSettle ==
  /\ firstRun.done
  /\ BatchResolveSettle
  /\ (batchPc' = "rejected")
       = (\E q \in DOMAIN firstRun.faults : firstRun.faults[q] = "lookup")

\* a publish call of the batch on the sns publisher settles: the
\* collaborators of the call for an input position do what they did for
\* that position on the sqs publisher
SecondPublishSettle ==
  /\ firstRun.done
  /\ PublishSettle(FaultKinds)
  /\ \A q \in DOMAIN pubLog :
       pubLog'[q] # pubLog[q] => pubLog'[q].fault = firstRun.faults[q]

\* SpecBoth: a batch is given to an sqs publisher and then, with the same
\* configuration, messages, options and collaborator outcomes, to an sns
\* publisher.
InitBoth ==
  /\ publisher = "sqs"
  /\ \E cfg \in Configs(BOOLEAN) : Constructed(cfg)
  /\ Idle

NextBoth ==
  \/ FirstBatchCall
  \/ FirstPublishSettle
  \/ ChunkSettled
  \/ ConstructSnsPublisher
  \/ SecondBatchCall
  \/ SecondResolveSettle
  \/ SecondPublishSettle

SpecBoth == InitBoth /\ [][NextBoth]_vars

\* the enricher number i a callback adds to the builder
AddedEnricher(i) == [id |-> i, getPriority |-> <<>>, keys |-> {"a"}]

\* the builder calls a callback makes
BuilderCalls ==
  { [method |-> "destination", destination |-> d, enrichers |-> <<>>] :
      d \in {EmptyString} \cup Destinations }
    \cup { [method |-> "serializer", destination |-> Undefined, enrichers |-> <<>>] }
    \cup { [method |-> "addEnricher", destination |-> Undefined,
            enrichers |-> <<AddedEnricher(i)>>] : i \in {1, 2} }
    \cup { [method |-> "enrichers", destination |-> Undefined, enrichers |-> es] :
            es \in {<<>>, <<AddedEnricher(2), AddedEnricher(1)>>} }

\* the callbacks: every sequence of up to MaxBuilderCalls builder calls
Callbacks == UNION { [1..m -> BuilderCalls] : m \in 0..MaxBuilderCalls }

\* configure(callback) is called for the first time
FirstConfigure ==
  /\ lastConfigure = NoConfigure
  /\ ConfigureWith(Callbacks, {FALSE})

\* SpecBuild: a publisher constructed without configuration is configured
\* with any callback of up to MaxBuilderCalls builder calls.
InitBuild ==
  /\ publisher \in {"sqs", "sns"}
  /\ Unconfigured
  /\ Idle

NextBuild == FirstConfigure

SpecBuild == InitBuild /\ [][NextBuild]_vars

\* configure(callback) is called while no publish call is in progress; the
\* callback makes at most one builder call, and may throw
ConfigureWithBetweenCalls ==
  /\ publishPc = "idle"
  /\ ConfigureWith({ calls \in Callbacks : Len(calls) <= 1 }, BOOLEAN)

\* SpecConfigure: a publisher constructed with or without configuration;
\* publish calls issued one after another and, between them, configure
\* calls whose callback throws or leaves the builder with or without
\* destination.
InitConfigure ==
  /\ publisher \in {"sqs", "sns"}
  /\ \/ Unconfigured
     \/ \E cfg \in [destination : Destinations,
                      enrichers : {<<>>, <<AddedEnricher(1)>>},
                      contextResolver : {FALSE},
                      logger : {"NoOpLogger"},
                      serializer : {"JsonMessageSerializer"}] : Constructed(cfg)
  /\ Idle

NextConfigure ==
  \/ PublishCall
  \/ LookupSettle
  \/ EnricherSettle
  \/ EnrichReturn
  \/ EnrichMessageResume
  \/ SerializeSettle
  \/ SendSettle
  \/ AwaitPublish
  \/ ConfigureWithBetweenCalls

SpecConfigure == InitConfigure /\ [][NextConfigure]_vars

\* the values of the attributes given to the conversion (the bytes of the
\* Buffers are the characters a and b)
JsValues ==
  { JsString(chars) : chars \in {"", "x"} }
    \cup { JsNumber(n) : n \in (0 - MaxNumber)..MaxNumber }
    \cup { JsBuffer(bs) : bs \in UNION { [1..m -> {97, 98}] : m \in 0..MaxBytes } }

\* MessageAttributes = Record<string, MessageAttributeValue> over the keys a, b,
\* a MessageAttributeValue being { dataType: 'String' | 'Number' | 'Binary',
\* value: string | number | Buffer }
AttributeSets ==
  UNION { [ks -> [dataType : {"String", "Number", "Binary"}, value : JsValues]] :
            ks \in SUBSET {"a", "b"} }

\* the attributes of a message are fixed
ChooseAttributes ==
  /\ publishPc = "idle"
  /\ \E attrs \in AttributeSets : attributes' = attrs
  /\ publishPc' = "converting"
  /\ UNCHANGED <<optAttributes, queueUrl, sends, publishFault, publishReturn, steps, context,
                 response>>
  /\ UNCHANGED <<batchVars, pipeVars, histVars>>

\* the command is built: MessageAttributes: this.convertToXxxAttributes(attributes)
ConvertCall ==
  /\ publishPc = "converting"
  /\ sends' = Append(sends, SendCommand(queueUrl, TheMessage, attributes))
  /\ publishPc' = "converted"
  /\ UNCHANGED <<optAttributes, queueUrl, attributes, publishFault, publishReturn, steps,
                 context, response>>
  /\ UNCHANGED <<batchVars, pipeVars, histVars>>

\* SpecConvert: convertToSqsAttributes and convertToSnsAttributes applied
\* to every set of up to two attributes of any type and value.
InitConvert ==
  /\ publisher \in {"sqs", "sns"}
  /\ \E cfg \in Configs({FALSE}) : cfg.destination.form = "canonical" /\ Constructed(cfg)
  /\ Idle

NextConvert ==
  \/ ChooseAttributes
  \/ ConvertCall

SpecConvert == InitConvert /\ [][NextConvert]_vars

\* ------------------------------------------------------------------------
\* Properties of publishBatch
\* ------------------------------------------------------------------------

Returned == batchPc = "returned"

\* positions of the input list
Positions == 0..(Len(messages) - 1)

\* position p of the input list has an entry in the returned result
Counted(p) ==
  \/ \E k \in 1..Len(batchResult.successful) : batchResult.successful[k].messageId = p
  \/ \E k \in 1..Len(batchResult.failed) : batchResult.failed[k].message.pos = p

\* the chunk (0-based) that input position p belongs to
ChunkOf(p) == p \div chunkSize

\* C1: with continueOnError=false, the returned result has an entry, in
\* successful or in failed, for every message of every chunk that was started.
C1_StartedChunkCounted ==
  (Returned /\ ~ContinueOnError(optContinue))
    => \A p \in Positions : pub[p] # "idle" => Counted(p)

\* C2: with continueOnError true or omitted, the returned counts add up to
\* totalCount and equal the lengths of the two lists.
C2_CountsAddUp ==
  (Returned /\ ContinueOnError(optContinue))
    => /\ batchResult.successCount + batchResult.failureCount = batchResult.totalCount
       /\ batchResult.successCount = Len(batchResult.successful)
       /\ batchResult.failureCount = Len(batchResult.failed)
       /\ batchResult.totalCount = Len(messages)

C2_Witness ==
  /\ Returned
  /\ ContinueOnError(optContinue)
  /\ batchResult.failureCount >= 1
  /\ batchResult.successCount >= 1
  /\ \E k \in 1..Len(batchResult.successful) :
       batchResult.successful[k].messageId > batchResult.failed[1].index

\* C3: whenever publishBatch returns, also after an early stop, totalCount is
\* the length of the input list and successCount + failureCount <= totalCount.
C3_TotalIsInputLength ==
  Returned
    => /\ batchResult.totalCount = Len(messages)
       /\ batchResult.successCount + batchResult.failureCount <= batchResult.totalCount

C3_Witness ==
  /\ Returned
  /\ ~ContinueOnError(optContinue)
  /\ chunkPos + 1 < Len(chunks)
  /\ batchResult.successCount + batchResult.failureCount < batchResult.totalCount

\* C4: every FailedPublish carries the 0-based position of its message in
\* the input list, and the message at that position.
FailedIndexed(fs) ==
  \A k \in 1..Len(fs) :
    /\ fs[k].index = fs[k].message.pos
    /\ fs[k].index \in Positions
    /\ messages[fs[k].index + 1] = fs[k].message

C4_FailedIndexIsInputPosition ==
  /\ FailedIndexed(failed)
  /\ Returned => FailedIndexed(batchResult.failed)

C4_Witness ==
  /\ Returned
  /\ \E k \in 1..Len(batchResult.failed) : batchResult.failed[k].index >= chunkSize
  /\ \E k \in 1..Len(batchResult.failed) :
       batchResult.failed[k].index \in 1..(chunkSize - 1)

\* C5: a publish of a message of a later chunk is started only when every
\* publish of every earlier chunk has settled.
C5_ChunksSequential ==
  \A p, q \in DOMAIN pub :
    (ChunkOf(p) < ChunkOf(q) /\ pub[q] # "idle") => pub[p] \in {"ok", "fail"}

C5_Witness ==
  /\ batchPc = "awaiting"
  /\ chunkPos = 1
  /\ \E q \in DOMAIN pub : ChunkOf(q) = 1 /\ pub[q] = "inflight"
  /\ \E p \in DOMAIN pub : ChunkOf(p) = 0 /\ pub[p] = "fail"
  /\ \E p \in DOMAIN pub : ChunkOf(p) = 0 /\ pub[p] = "ok"

\* C6: with continueOnError=false, once a message of a chunk has failed no
\* message of a later chunk is ever published, and the call leaves the
\* await on that chunk only by returning a result that holds the failure.
C6_NoChunkAfterFailure ==
  (~ContinueOnError(optContinue) /\ \E p \in DOMAIN pub : pub[p] = "fail")
    => /\ \A p, q \in DOMAIN pub :
            (pub[p] = "fail" /\ ChunkOf(p) < ChunkOf(q)) => pub[q] = "idle"
       /\ batchPc \in {"awaiting", "returned"}
       /\ Returned => /\ Len(batchResult.failed) >= 1
                      /\ batchResult.successful = successful
                      /\ batchResult.failed = failed

C6_Witness ==
  /\ Returned
  /\ ~ContinueOnError(optContinue)
  /\ \E p \in DOMAIN pub : ChunkOf(p) = 0 /\ pub[p] = "fail"
  /\ \E q \in DOMAIN pub : ChunkOf(q) = 1 /\ pub[q] = "idle"

\* C7: on a configured publisher publishBatch never rejects.
C7_BatchNeverRejects == IsConfigured(config) => batchPc # "rejected"

\* C8: the chunks are contiguous pieces of the input, each of exactly
\* chunkSize messages except a possibly shorter, non-empty last one; their
\* concatenation is the input; there are ceil(N / chunkSize) of them.
RECURSIVE Concat(_)
Concat(cs) == IF cs = <<>> THEN <<>> ELSE cs[1].items \o Concat(Tail(cs))

CeilDiv(n, d) == (n + d - 1) \div d

C8_ChunkPartition ==
  batchPc = "chunked"
    => /\ Len(chunks) = CeilDiv(Len(messages), chunkSize)
       /\ \A k \in 1..Len(chunks) :
            /\ k < Len(chunks) => Len(chunks[k].items) = chunkSize
            /\ Len(chunks[k].items) \in 1..chunkSize
       /\ Concat(chunks) = messages

C8_Witness ==
  /\ batchPc = "chunked"
  /\ Len(messages) = 25
  /\ Len(chunks) = 3
  /\ Len(chunks[1].items) = 10
  /\ Len(chunks[2].items) = 10
  /\ Len(chunks[3].items) = 5

\* ------------------------------------------------------------------------
\* Properties of EnrichmentPipeline.enrich
\* ------------------------------------------------------------------------

\* positions (1-based, in execution order) of the enrichers that were invoked,
\* did not throw and return an attribute named k
Producers(k) ==
  { j \in 1..Len(outcomes) : ~outcomes[j] /\ k \in enrichmentPipeline.sortedEnrichers[j].keys }

Last(S) == CHOOSE j \in S : \A i \in S : i <= j

\* the ordered merge of what the non-throwing enrichers returned
OrderedMerge ==
  [ k \in { key \in AttributeKeys : Producers(key) # {} } |->
      AttributesOf(enrichmentPipeline.sortedEnrichers[Last(Producers(k))])[k] ]

\* C9: enrich never rejects; when it resolves every enricher has been invoked,
\* whichever of them threw, and the value is the ordered merge of the
\* attributes of those that did not throw (empty when there is none).
C9_EnrichIsolatesFailures ==
  /\ enrichPc # "rejected"
  /\ enrichPc = "resolved"
       => /\ Len(outcomes) = Len(enrichmentPipeline.sortedEnrichers)
          /\ enrichReturn = OrderedMerge
          /\ (\A j \in 1..Len(outcomes) : outcomes[j]) => DOMAIN enrichReturn = {}

C9_Witness ==
  /\ enrichPc = "resolved"
  /\ Len(outcomes) = 3
  /\ ~outcomes[1] /\ outcomes[2] /\ ~outcomes[3]
  /\ DOMAIN enrichReturn = {"a", "b"}
  /\ enrichReturn["a"].value # enrichReturn["b"].value

\* ------------------------------------------------------------------------
\* Properties of publish
\* ------------------------------------------------------------------------

PublishSettled == publishPc \in {"resolved", "rejected"}

\* C10: a publish call in which name resolution, context resolution,
\* serialization and send all succeed gives the send command to the backend
\* and resolves with a PublishResult, however many of its enrichers throw.
C10_EnricherFailuresDoNotFailPublish ==
  /\ (PublishSettled /\ publishFault = "none")
       => /\ publishPc = "resolved"
          /\ publishReturn.settled = "resolved"
          /\ Len(sends) = 1
          /\ publishReturn.result.destination = sends[1].address
  /\ (publishPc \in {"serializing", "sending"} /\ enrichmentPipeline.defined)
       => Len(outcomes) = Len(enrichmentPipeline.sortedEnrichers)

C10_Witness ==
  /\ publishPc = "resolved"
  /\ Len(outcomes) = 2
  /\ outcomes[1] /\ outcomes[2]
  /\ Len(sends) = 1
  /\ DOMAIN sends[1].attributes = {"contentType"}

\* ------------------------------------------------------------------------
\* Properties of the order of the enrichers
\* ------------------------------------------------------------------------

\* C11: getEnrichers() returns a permutation of the array the pipeline was
\* constructed from, non-decreasing in priority (no getPriority counts as
\* 100), and enrichers of equal priority keep their input order.
C11_SortedStablePermutation ==
  enrichmentPipeline.defined
    => LET input == config.enrichers
           out == GetEnrichers(enrichmentPipeline)
       IN /\ Len(out) = Len(input)
          /\ \A j \in 1..Len(out) : out[j].id \in 1..Len(input) /\ out[j] = input[out[j].id]
          /\ \A i, j \in 1..Len(out) : i # j => out[i].id # out[j].id
          /\ \A i, j \in 1..Len(out) : i < j => Priority(out[i]) <= Priority(out[j])
          /\ \A i, j \in 1..Len(out) :
               (i < j /\ Priority(out[i]) = Priority(out[j])) => out[i].id < out[j].id

C11_Witness ==
  /\ enrichmentPipeline.defined
  /\ Len(config.enrichers) = 3
  /\ config.enrichers[1].getPriority = <<150>>
  /\ config.enrichers[2].getPriority = <<>>
  /\ config.enrichers[3].getPriority = <<>>
  /\ GetEnrichers(enrichmentPipeline)[1].id = 2
  /\ GetEnrichers(enrichmentPipeline)[2].id = 3
  /\ GetEnrichers(enrichmentPipeline)[3].id = 1

\* C12: within one enrich call at most one enricher invocation is in flight,
\* the enrichers are invoked in the sorted order, and the enricher at
\* position k+1 is invoked only after the invocation at position k has settled.
C12_SequentialInSortedOrder ==
  /\ Cardinality(inflight) <= 1
  /\ Len(invocations) <= Len(outcomes) + 1
  /\ inflight \subseteq {Len(outcomes)}
  /\ \A j \in 1..Len(invocations) : invocations[j] = j - 1
  /\ \A i, j \in 1..Len(invocations) :
       i < j => Priority(enrichmentPipeline.sortedEnrichers[invocations[i] + 1])
                  <= Priority(enrichmentPipeline.sortedEnrichers[invocations[j] + 1])

C12_Witness ==
  /\ enrichPc = "running"
  /\ Len(config.enrichers) = 3
  /\ Priority(config.enrichers[1]) = 150
  /\ Priority(config.enrichers[2]) = 50
  /\ Priority(config.enrichers[3]) = 100
  /\ Len(outcomes) = 2
  /\ inflight = {2}
  /\ [ j \in 1..3 |-> enrichmentPipeline.sortedEnrichers[invocations[j] + 1].id ] = <<2, 3, 1>>

\* C13: for every attribute name returned by more than one enricher that
\* did not throw, the result of enrich holds the value of the one latest in
\* execution order; a name returned by one enricher holds that enricher's value.
C13_LastWriterWins ==
  enrichPc = "resolved"
    => \A k \in AttributeKeys :
         LET P == Producers(k) IN
           /\ Cardinality(P) >= 2
                => /\ k \in DOMAIN enrichReturn
                   /\ \A j \in P : (\A i \in P : i <= j)
                        => enrichReturn[k] = AttributesOf(enrichmentPipeline.sortedEnrichers[j])[k]
           /\ Cardinality(P) = 1
                => /\ k \in DOMAIN enrichReturn
                   /\ \A j \in P :
                        enrichReturn[k] = AttributesOf(enrichmentPipeline.sortedEnrichers[j])[k]

C13_Witness ==
  /\ enrichPc = "resolved"
  /\ Producers("a") = {1, 3}
  /\ Producers("b") = {2}
  /\ enrichReturn["a"] = AttributesOf(enrichmentPipeline.sortedEnrichers[3])["a"]
  /\ enrichReturn["a"] # AttributesOf(enrichmentPipeline.sortedEnrichers[1])["a"]
  /\ enrichReturn["b"] = AttributesOf(enrichmentPipeline.sortedEnrichers[2])["b"]

\* ------------------------------------------------------------------------
\* Properties of the attributes sent by publish
\* ------------------------------------------------------------------------

\* an attribute as it is expected in the MessageAttributes of a send
\* command: a String or Number attribute as the string of its value, a
\* Binary attribute as its bytes
Outgoing(attribute) ==
  [ DataType    |-> attribute.dataType,
    StringValue |-> IF attribute.dataType = "Binary"
                      THEN <<>> ELSE <<ToJsString(attribute.value)>>,
    BinaryValue |-> IF attribute.dataType = "Binary" THEN <<attribute.value>> ELSE <<>> ]

\* the explicit attributes of the call ({} when the options have none)
ExplicitOfCall == IF optAttributes = <<>> THEN EmptyObject ELSE optAttributes[1]

\* C14: in every send of publish the attribute contentType is a String
\* attribute whose value is the content type the serializer returned,
\* whether or not an enricher or the explicit attributes had a contentType.
C14_ContentTypeFromSerializer ==
  \A i \in 1..Len(sends) :
    /\ "contentType" \in DOMAIN sends[i].attributes
    /\ sends[i].attributes["contentType"].DataType = "String"
    /\ sends[i].attributes["contentType"].StringValue = <<SerializerContentType>>

C14_Witness ==
  /\ Len(sends) = 1
  /\ "contentType" \in DOMAIN enrichReturn
  /\ "contentType" \in DOMAIN ExplicitOfCall
  /\ enrichReturn["contentType"].value # JsString(SerializerContentType)
  /\ ExplicitOfCall["contentType"].value # JsString(SerializerContentType)
  /\ sends[1].attributes["contentType"].StringValue = <<SerializerContentType>>

\* C15: in the send of a publish call, an attribute name other than
\* contentType that is both in the enrichment result and in the explicit
\* attributes carries the explicit attribute; a name in only one of the two
\* carries that one's attribute; no other name is sent.
C15_ExplicitOverridesEnrichment ==
  \A i \in 1..Len(sends) :
    LET sent == sends[i].attributes IN
      /\ DOMAIN sent \ {"contentType"}
           = ((DOMAIN enrichReturn) \cup (DOMAIN ExplicitOfCall)) \ {"contentType"}
      /\ \A k \in DOMAIN sent \ {"contentType"} :
           IF k \in DOMAIN ExplicitOfCall
             THEN sent[k] = Outgoing(ExplicitOfCall[k])
             ELSE sent[k] = Outgoing(enrichReturn[k])

C15_Witness ==
  /\ Len(sends) = 1
  /\ optAttributes # <<>>
  /\ {"a", "b"} \subseteq DOMAIN enrichReturn
  /\ enrichReturn["a"].value # ExplicitOfCall["a"].value
  /\ sends[1].attributes["a"] = Outgoing(ExplicitOfCall["a"])
  /\ sends[1].attributes["b"] = Outgoing(enrichReturn["b"])
  /\ sends[1].attributes["c"] = Outgoing(ExplicitOfCall["c"])

\* ------------------------------------------------------------------------
\* Properties of configuration and name resolution
\* ------------------------------------------------------------------------

\* C16: on a publisher that was never configured, publish and publishBatch
\* fail with a ConfigurationError and no collaborator is invoked: no name
\* lookup, no context resolution, no enricher, no serializer, no send.
C16_UnconfiguredFailsWithoutIO ==
  config = NoConfig
    => /\ publishPc \in {"idle", "rejected"}
       /\ callNo >= 1 => /\ publishPc = "rejected"
                         /\ publishReturn = Rejected(Thrown("ConfigurationError"))
       /\ batchPc \in {"idle", "rejected"}
       /\ batchPc = "rejected" => batchError = "ConfigurationError"
       /\ publishFault = "none"
       /\ lookupLog = <<>>
       /\ cacheLog = <<>>
       /\ resolved = Undefined
       /\ sends = <<>>
       /\ invocations = <<>>
       /\ inflight = {}
       /\ promises = <<>>
       /\ \A p \in DOMAIN pub : pub[p] = "idle"

C16_Witness ==
  /\ config = NoConfig
  /\ publishPc = "rejected"
  /\ publishReturn.error.class = "ConfigurationError"
  /\ batchPc = "rejected"
  /\ batchError = "ConfigurationError"
  /\ Len(messages) = 2

\* the applications of a configuration made before publish call c
AppliedBefore(c) == { e \in 1..Len(configureLog) : configureLog[e].calls < c }

\* the destination configured when publish call c was made
DestinationAt(c) == configureLog[Last(AppliedBefore(c))].destination

\* the publish calls made so far under the e-th configuration
CallsUnder(e) ==
  { c \in 1..callNo : /\ configureLog[e].calls < c
                      /\ e < Len(configureLog) => c <= configureLog[e + 1].calls }

\* the lookups made by the publish calls under the e-th configuration
LookupsUnder(e) == { i \in 1..Len(lookupLog) : lookupLog[i].call \in CallsUnder(e) }

\* C17: for publish calls issued one after another under one configuration:
\* with a canonical destination no lookup is made; with a short name a
\* lookup is made only while every earlier one has failed, so a successful
\* lookup is the only successful one and the last one, it is made by the first
\* publish when that one's lookup succeeds, and every send comes after it.
C17_LookupOncePerConfiguration ==
  \A e \in 1..Len(configureLog) :
    LET d == configureLog[e].destination
        L == LookupsUnder(e)
    IN /\ IsCanonical(d) => L = {}
       /\ ~IsCanonical(d)
            => /\ \A i, j \in L : i < j => lookupLog[i].state = "failed"
               /\ \A i \in L : (\A j \in L : i <= j)
                    => \A c \in CallsUnder(e) : lookupLog[i].call <= c
               /\ \A k \in 1..Len(sends) :
                    sends[k].body \in CallsUnder(e)
                      => \E i \in L : /\ lookupLog[i].state = "ok"
                                      /\ lookupLog[i].call <= sends[k].body

C17_Witness ==
  /\ Len(configureLog) = 1
  /\ ~IsCanonical(config.destination)
  /\ callNo = 3
  /\ Len(sends) = 3
  /\ Len(lookupLog) = 1
  /\ lookupLog[1].call = 1
  /\ lookupLog[1].state = "ok"

\* C18 as stated: within one configuration lifetime the cache field is
\* assigned at most once.
C18_CacheWrittenOnce == Len(cacheLog) <= 1

\* the publish calls of the first chunk that have settled
SettledInFirstChunk == { p \in DOMAIN pub : ChunkOf(p) = 0 /\ pub[p] \in {"ok", "fail"} }

\* C18 (amended): within one configuration lifetime every assignment to the
\* cache stores the canonical address of the configured destination; there
\* is at most one when the destination is canonical or when publishBatch
\* resolves the name itself before it dispatches (sns), and at most one per
\* settled publish of the first chunk otherwise.
C18_CacheWritesSameAddress ==
  /\ \A i \in 1..Len(cacheLog) :
       /\ cacheLog[i].form = "canonical"
       /\ cacheLog[i].id = config.destination.id
       /\ cacheLog[i] = cacheLog[1]
  /\ (IsCanonical(config.destination) \/ publisher = "sns") => Len(cacheLog) <= 1
  /\ Len(cacheLog) <= 1 \/ Len(cacheLog) <= Cardinality(SettledInFirstChunk)

C18_Witness ==
  /\ publisher = "sqs"
  /\ ~IsCanonical(config.destination)
  /\ Len(cacheLog) = 3
  /\ cacheLog[1] = cacheLog[3]
  /\ resolved = cacheLog[1]

\* C19: after a configuration replaced another, the cache holds no address
\* of the old destination: the first publish under the new configuration
\* looks its destination up (one lookup for a short name), and every send
\* goes to the address of the destination configured when its call was made.
C19_ConfigureClearsCache ==
  /\ resolved # Undefined => resolved = AddressOf(config.destination)
  /\ \A k \in 1..Len(sends) : sends[k].address = AddressOf(DestinationAt(sends[k].body))
  /\ \A e \in 2..Len(configureLog) :
       LET first == configureLog[e].calls + 1 IN
         (first \in CallsUnder(e) /\ ~IsCanonical(configureLog[e].destination))
           => /\ Cardinality({ i \in 1..Len(lookupLog) : lookupLog[i].call = first }) = 1
              /\ \A i \in 1..Len(lookupLog) :
                   lookupLog[i].call = first
                     => lookupLog[i].destination = configureLog[e].destination

C19_Witness ==
  /\ Len(configureLog) = 2
  /\ configureLog[1].destination = [form |-> "name", id |-> "A"]
  /\ configureLog[2].destination = [form |-> "name", id |-> "B"]
  /\ configureLog[2].calls = 1
  /\ Len(sends) = 2
  /\ sends[1].address = [form |-> "canonical", id |-> "A"]
  /\ sends[2].address = [form |-> "canonical", id |-> "B"]
  /\ Len(lookupLog) = 2
  /\ lookupLog[2].destination = [form |-> "name", id |-> "B"]

\* C20: when the lookup of a publish call fails, the call rejects with a
\* ConfigurationError, it sends nothing, the cache stays empty, and the next
\* publish under a short name makes a lookup of its own.
C20_LookupFailureIsConfigurationError ==
  \A i \in 1..Len(lookupLog) :
    lookupLog[i].state = "failed"
      => LET c == lookupLog[i].call IN
           /\ \A k \in 1..Len(sends) : sends[k].body # c
           /\ callNo = c => /\ publishPc \in {"rejected", "idle"}
                            /\ publishFault = "lookup"
                            /\ publishReturn.settled = "rejected"
                            /\ publishReturn.error.class = "ConfigurationError"
                            /\ resolved = Undefined
           /\ (callNo > c /\ ~IsCanonical(DestinationAt(c + 1)))
                => \E j \in 1..Len(lookupLog) : lookupLog[j].call = c + 1

C20_Witness ==
  /\ Len(lookupLog) = 2
  /\ lookupLog[1].call = 1
  /\ lookupLog[1].state = "failed"
  /\ lookupLog[2].call = 2
  /\ lookupLog[2].state = "ok"
  /\ Len(sends) = 1
  /\ sends[1].body = 2
  /\ publishPc = "resolved"

\* ------------------------------------------------------------------------
\* Properties of the errors of publish
\* ------------------------------------------------------------------------

\* C21: when the serializer fails for the message, the error publish
\* rejects with is a SerializationError.
C21_SerializerFailureIsSerializationError ==
  publishFault = "serialize"
    => /\ publishReturn.settled = "rejected"
       /\ publishReturn.error.class = "SerializationError"

\* C22: when the serializer fails for a message, the client's send is never
\* called for that publish call: no send command carries the message of the
\* call of publish, and the publish call made by publishBatch for that input
\* position has called send zero times.
C22_NoSendAfterSerializerFailure ==
  /\ publishFault = "serialize"
       => \A i \in 1..Len(sends) : sends[i].body # TheMessage.body
  /\ \A p \in DOMAIN pubLog : pubLog[p].fault = "serialize" => pubLog[p].sends = 0

\* a publish call and a publish call of a batch have both failed at the
\* serializer, next to a message of the batch that was sent
C22_Witness ==
  /\ publishPc = "rejected"
  /\ publishFault = "serialize"
  /\ \E p, q \in DOMAIN pubLog :
       /\ pubLog[p].fault = "serialize"
       /\ pubLog[q].sends = 1

\* the errors resolveQueueUrl / resolveTopicArn of the publisher can throw
ResolveErrors == { ResolveError(publisher, outcome) : outcome \in {"empty", "rejects"} }

\* C23: a failure of the context resolver or of the send makes publish
\* reject with a PublishError that carries the destination and the error
\* thrown as cause; the ConfigurationError of a failed resolution or of a
\* missing configuration is what publish rejects with, unwrapped; and a call
\* in which a collaborator other than an enricher failed never resolves.
C23_FailuresWrappedOnce ==
  /\ publishFault \in {"context", "send"}
       => /\ publishReturn.settled = "rejected"
          /\ publishReturn.error.class = "PublishError"
          /\ publishReturn.error.cause = "Error"
          /\ publishReturn.error.destination = AddressOf(config.destination)
  /\ publishFault = "lookup"
       => /\ publishReturn.settled = "rejected"
          /\ publishReturn.error \in ResolveErrors
  /\ publishFault # "none" => publishPc = "rejected"
  /\ publishPc = "resolved" => publishFault = "none"

\* the send of a publish on a destination given by name has failed
C23_Witness ==
  /\ publishPc = "rejected"
  /\ publishFault = "send"
  /\ config.destination.form = "name"
  /\ publishReturn.error.destination.form = "canonical"

\* C24: a failure of the logger sink never changes the outcome of publish:
\* no call rejects because a logger call threw (a call whose send succeeded
\* resolves), and a call in which a collaborator failed rejects with the
\* error it rejects with under a silent logger.
C24_LoggerFailureKeepsOutcome ==
  /\ publishFault # "log"
  /\ publishFault \in {"context", "serialize", "send"}
       => publishReturn.error.class = "PublishError"
  /\ publishFault = "lookup" => publishReturn.error \in ResolveErrors

\* ------------------------------------------------------------------------
\* Properties of the order of the steps of publish
\* ------------------------------------------------------------------------

\* the steps of publish without the call of the resolver inside resolveContext
PublishSteps == SelectSeq(steps, LAMBDA e : e # "contextResolver.resolve")

\* every step begun and completed, one after the other
StepsInOrder ==
  Whole("resolve") \o Whole("context") \o Whole("enrich") \o Whole("serialize")
    \o Whole("send")

\* the steps before the i-th
StepsBefore(i) == { steps[j] : j \in 1..(i - 1) }

\* C25: in a publish call that resolved, destination resolution, context
\* resolution, enrichment, serialization and send were each begun after the
\* one before had completed; and in every call the send begins after
\* enrichment and serialization have completed.
C25_StepsInOrder ==
  /\ publishPc = "resolved" => PublishSteps = StepsInOrder
  /\ \A i \in DOMAIN steps :
       steps[i] = "send" => {"enrich:done", "serialize:done"} \subseteq StepsBefore(i)
  /\ (\E i \in DOMAIN sends : sends[i].body = TheMessage.body)
       => "send" \in Range(steps)

\* a call with a name lookup, a context resolver and two enrichers resolved
C25_Witness ==
  /\ publishPc = "resolved"
  /\ config.destination.form = "name"
  /\ config.contextResolver
  /\ Len(invocations) = 2

\* the number of calls of contextResolver.resolve in the publish call
ResolverCalls == Cardinality({ i \in DOMAIN steps : steps[i] = "contextResolver.resolve" })

\* C26: a configured context resolver is called exactly once per publish
\* call, it has returned before the first enricher is invoked, and every
\* enricher is given the value it returned; without a resolver it is not
\* called and every enricher is given the empty context.
C26_ContextResolvedOnce ==
  /\ config.contextResolver
       => /\ "context" \in Range(steps) => ResolverCalls = 1
          /\ received # <<>> => "context:done" \in Range(steps)
          /\ \A i \in DOMAIN received :
               received[i] \in ContextValues /\ received[i] = context
  /\ ~config.contextResolver
       => /\ ResolverCalls = 0
          /\ \A i \in DOMAIN received : received[i] = EmptyObject
  /\ Len(received) = Len(invocations)

\* two enrichers have been given the context the resolver returned
C26_Witness ==
  /\ config.contextResolver
  /\ Len(received) = 2
  /\ received[2] \in ContextValues
  /\ publishPc = "resolved"

\* ------------------------------------------------------------------------
\* Properties of the sends and the results
\* ------------------------------------------------------------------------

\* the commands given to the client by the publish call number call
SendsOfCall(call) == { i \in DOMAIN sends : sends[i].body = call }

\* the promises of the current chunk that are fulfilled with a PublishResult
FulfilledPromises ==
  { j \in DOMAIN promises : promises[j].state = "settled" /\ promises[j].value[1].success }

SendOfCall == sends[CHOOSE i \in DOMAIN sends : sends[i].body = TheMessage.body]

\* C28: the PublishResult of a publish call that resolved carries the
\* message id the backend answered with and, as destination, the address
\* the command was sent to, which is the canonical address of the
\* configured destination and not the configured name.
C28_ResultNamesResolvedDestination ==
  publishPc = "resolved"
    => /\ publishReturn.result.messageId = response.MessageId
       /\ response.MessageId \in MessageIds
       /\ publishReturn.result.destination = SendOfCall.address
       /\ publishReturn.result.destination.form = "canonical"
       /\ publishReturn.result.destination.id = config.destination.id

\* a call on a destination configured by name resolved
C28_Witness ==
  /\ publishPc = "resolved"
  /\ config.destination.form = "name"
  /\ callNo > 1
  /\ publishReturn.result.messageId = "m2"

\* ------------------------------------------------------------------------
\* Properties of the wire conversion
\* ------------------------------------------------------------------------

\* C29: the wire attributes have the keys of the attributes converted, and
\* each has the data type of its attribute; a String attribute has its
\* value as StringValue and no BinaryValue, a Number attribute has the
\* decimal string of its value as StringValue, a Binary attribute has its
\* bytes as BinaryValue and no StringValue.
C29_WireConversion ==
  publishPc = "converted"
    => \A i \in DOMAIN sends :
         LET wire == sends[i].attributes IN
           /\ DOMAIN wire = DOMAIN attributes
           /\ \A k \in DOMAIN attributes :
                LET a == attributes[k]
                    w == wire[k]
                IN /\ w.DataType = a.dataType
                   /\ a.dataType = "String"
                        => /\ w.StringValue = <<ToJsString(a.value)>>
                           /\ a.value.js = "string" => w.StringValue = <<a.value.str>>
                           /\ w.BinaryValue = <<>>
                   /\ a.dataType = "Number"
                        => /\ w.StringValue = <<ToJsString(a.value)>>
                           /\ a.value.js = "number"
                                => w.StringValue = <<ToString(a.value.num)>>
                   /\ a.dataType = "Binary"
                        => /\ w.BinaryValue = <<a.value>>
                           /\ w.StringValue = <<>>

\* a Number attribute and a Binary attribute have been converted
C29_Witness ==
  /\ publishPc = "converted"
  /\ DOMAIN attributes = {"a", "b"}
  /\ attributes["a"] = [dataType |-> "Number", value |-> JsNumber(1)]
  /\ attributes["b"] = [dataType |-> "Binary", value |-> JsBuffer(<<97>>)]
  /\ sends[1].attributes["a"].StringValue = <<"1">>
  /\ sends[1].attributes["b"].BinaryValue = <<JsBuffer(<<97>>)>>

\* ------------------------------------------------------------------------
\* Properties of the configuration builder
\* ------------------------------------------------------------------------

\* the destination the calls of a callback gave last (Undefined if none)
RECURSIVE LastDestination(_)
LastDestination(calls) ==
  IF calls = <<>> THEN Undefined
  ELSE IF calls[Len(calls)].method = "destination" THEN calls[Len(calls)].destination
  ELSE LastDestination(SubSeq(calls, 1, Len(calls) - 1))

\* the enrichers the calls of a callback added: the ones given to
\* addEnricher, in the order of the calls, after the list enrichers(list)
\* set last
RECURSIVE Added(_)
Added(calls) ==
  IF calls = <<>> THEN <<>>
  ELSE LET last == calls[Len(calls)]
           rest == SubSeq(calls, 1, Len(calls) - 1)
       IN IF last.method = "enrichers" THEN last.enrichers
          ELSE IF last.method = "addEnricher" THEN Added(rest) \o last.enrichers
          ELSE Added(rest)

\* C30: build() on a builder without destination throws a ConfigurationError
\* and configure throws it too, leaving the publisher as it was; with a
\* destination configure returns, and the configuration built and applied
\* has that destination, the serializer given (a JsonMessageSerializer when
\* none was given) and the enrichers added, in the order they were added.
C30_BuildValidatesAndDefaults ==
  LET calls == lastConfigure.calls IN
    lastConfigure.outcome # "none"
      => IF LastDestination(calls) \in {Undefined, EmptyString}
           THEN /\ lastConfigure.outcome = "threw"
                /\ lastConfigure.error.class = "ConfigurationError"
                /\ config = NoConfig
           ELSE /\ lastConfigure.outcome = "returned"
                /\ config = lastConfigure.built
                /\ config.destination = LastDestination(calls)
                /\ config.serializer =
                     IF \E i \in DOMAIN calls : calls[i].method = "serializer"
                       THEN "CustomSerializer" ELSE "JsonMessageSerializer"
                /\ config.enrichers = Added(calls)

\* a callback gave a destination and added two enrichers, no serializer
C30_Witness ==
  /\ lastConfigure.outcome = "returned"
  /\ config.serializer = "JsonMessageSerializer"
  /\ config.enrichers = <<AddedEnricher(2), AddedEnricher(1)>>
  /\ \A i \in DOMAIN lastConfigure.calls : lastConfigure.calls[i].method # "enrichers"

\* ------------------------------------------------------------------------
\* Properties of the order of the lists of a batch result
\* ------------------------------------------------------------------------

\* the input positions of the messages of a list of PublishResult (the
\* message id of a result is the input position of its message)
SuccessfulPositions(results) == [ i \in DOMAIN results |-> results[i].messageId ]

\* the indices of a list of FailedPublish
FailedIndices(fs) == [ i \in DOMAIN fs |-> fs[i].index ]

Increasing(ns) == \A i, j \in DOMAIN ns : i < j => ns[i] < ns[j]

\* C31: the successful list (while it is built and in the result) holds the
\* results in the order of the input positions of their messages, and the
\* failed list holds its entries by increasing index, whatever the order in
\* which the publish calls of a chunk settled.
C31_ListsInInputOrder ==
  /\ Increasing(SuccessfulPositions(successful))
  /\ Increasing(FailedIndices(failed))
  /\ Increasing(SuccessfulPositions(batchResult.successful))
  /\ Increasing(FailedIndices(batchResult.failed))

\* a batch of two chunks has returned with successes of both chunks and
\* several failures, after a publish call had settled before an earlier one
\* of its chunk
C31_Witness ==
  /\ Returned
  /\ overtaken
  /\ Len(chunks) = 2
  /\ batchResult.failureCount >= 2
  /\ \E i, j \in DOMAIN batchResult.successful :
       /\ ChunkOf(batchResult.successful[i].messageId) = 0
       /\ ChunkOf(batchResult.successful[j].messageId) = 1

\* ------------------------------------------------------------------------
\* Properties of configure calls made while a publish call is suspended
\* ------------------------------------------------------------------------

\* C32: whenever the cache field is set, it holds the canonical address of
\* the destination of the current configuration, also when configure is
\* called while a name lookup begun under the previous configuration is in
\* flight.
C32_CacheIsAddressOfCurrentDestination ==
  resolved # Undefined => resolved = AddressOf(config.destination)

\* ------------------------------------------------------------------------
\* Properties of the enrichers after a configure call
\* ------------------------------------------------------------------------

\* the enrichers the enrich call of the pipeline has invoked
InvokedEnrichers ==
  { enrichmentPipeline.sortedEnrichers[invocations[i] + 1] : i \in DOMAIN invocations }

\* C33: once a publish call is past its enrichment, the enrichers it
\* invoked are exactly the enrichers of the configuration in force; under a
\* configuration without enrichers no enricher is invoked and the command
\* sent carries the explicit attributes and contentType only.
C33_EnrichersOfCurrentConfiguration ==
  publishPc \in {"serializing", "sending", "resolved"}
    => /\ InvokedEnrichers = Range(config.enrichers)
       /\ (config.enrichers = <<>> /\ publishPc # "serializing")
            => DOMAIN SendOfCall.attributes = (DOMAIN ExplicitOfCall) \cup {"contentType"}

\* ------------------------------------------------------------------------
\* Properties of a configure call that fails
\* ------------------------------------------------------------------------

\* the configure call c fails: its callback threw, or left the builder
\* without destination
Fails(c) ==
  \/ c.callback = "threw"
  \/ c.callback = "returned" /\ LastDestination(c.calls) \in {Undefined, EmptyString}

InFlight == { p \in DOMAIN pub : pub[p] = "inflight" }

\* C35: at every moment of a publishBatch call at most chunkSize publish
\* calls of the batch are in flight.
C35_AtMostChunkSizeInFlight == Cardinality(InFlight) <= chunkSize

\* a batch longer than a chunk has a whole chunk in flight
C35_Witness ==
  /\ Len(messages) > chunkSize
  /\ Cardinality(InFlight) = chunkSize

\* ------------------------------------------------------------------------
\* Properties of the configuration a publish call works with
\* ------------------------------------------------------------------------

\* the configuration in force when the publish call in progress was made
ConfigurationAtCall == configureLog[Last(AppliedBefore(callNo))]

\* C36: a publish call works with the configuration in force when it was
\* made: it calls a context resolver only if that configuration has one,
\* and it sends to the address of the destination of that configuration,
\* also when configure is called while the call is suspended.
C36_OneConfigurationPerCall ==
  (callNo > 0 /\ publishPc # "idle")
    => /\ ResolverCalls > 0 => ConfigurationAtCall.contextResolver
       /\ \A i \in SendsOfCall(callNo) :
            sends[i].address = AddressOf(ConfigurationAtCall.destination)

\* ------------------------------------------------------------------------
\* Termination
\* ------------------------------------------------------------------------

\* the publish call made for input position p is in flight / has settled
PublishInFlight(p) == p \in DOMAIN pub /\ pub[p] = "inflight"

PublishHasSettled(p) == p \in DOMAIN pub /\ pub[p] \in {"ok", "fail"}

\* C37: when every collaborator call settles, every publish call made by a
\* batch settles, and every publishBatch call that is suspended returns a
\* result.
C37_CallsTerminateWithResult ==
  /\ \A p \in 0..(MaxMsgs - 1) : PublishInFlight(p) ~> PublishHasSettled(p)
  /\ (batchPc \in {"resolving", "awaiting"}) ~> Returned

\* ------------------------------------------------------------------------
\* The two publishers compared
\* ------------------------------------------------------------------------

\* what firstRun holds of the observations of the batch on the sqs publisher
FirstObserved == [ f \in DOMAIN Observed |-> firstRun[f] ]

\* C38: a batch that has settled on the sns publisher has settled as it did
\* on the sqs publisher given the same configuration, messages, options and
\* collaborator outcomes: same outcome and error class, same counts and
\* failed indices, same numbers of name lookups and of sends.
C38_SamePublishers ==
  (firstRun.done /\ batchPc \in {"returned", "rejected"}) => Observed = FirstObserved

\* ------------------------------------------------------------------------
\* Properties of the pipeline's arrays
\* ------------------------------------------------------------------------

\* C39: constructing the pipeline leaves the caller's array as it was, and
\* whatever the caller does to the arrays getEnrichers returned, the array
\* the enrich loop goes over stays the caller's enrichers in priority order,
\* a getEnrichers call returns just that, in an array of its own, and an
\* enrich call that resolved has run every enricher.
C39_ArraysAreCopies ==
  enrichmentPipeline.defined
    => /\ arrays.heap[arrays.caller] = config.enrichers
       /\ arrays.sorted # arrays.caller
       /\ arrays.heap[arrays.sorted] = SortByPriority(config.enrichers)
       /\ enrichmentPipeline.sortedEnrichers = SortByPriority(config.enrichers)
       /\ arrays.got # 0 => arrays.got \notin {arrays.caller, arrays.sorted}
       /\ arrays.fresh => arrays.heap[arrays.got] = SortByPriority(config.enrichers)
       /\ enrichPc = "resolved" => Len(outcomes) = Len(config.enrichers)

C39_Witness ==
  /\ enrichmentPipeline.defined
  /\ config.enrichers # SortByPriority(config.enrichers)
  /\ Len(arrays.heap) = 4
  /\ arrays.heap[3] # arrays.heap[arrays.sorted]
  /\ arrays.fresh
  /\ arrays.early
  /\ enrichPc = "resolved"
  /\ Len(outcomes) >= 2


====
